---- MODULE Spec2Model ----
(***************************************************************************)
(* PicManager: the moderation workflow (pending requests and their review), *)
(* the session registry and the guest quota, as implemented by             *)
(* app/routers/{api,auth,admin}.py, app/services.py and app/database.py.   *)
(*                                                                         *)
(* Scheduling.  Handlers declared `async def` run on the single event loop *)
(* of the server process and contain no await (except upload_single_image  *)
(* and login), so two of them never interleave: loopOwner is the handler   *)
(* that currently runs on the loop.  Handlers declared `def` run in the    *)
(* thread pool and interleave freely with each other and with the handler  *)
(* on the loop.  A step of the model is one database commit (or one        *)
(* file-system call) together with the reads that precede it: SQLite       *)
(* serialises commits, and reads see the last committed state.             *)
(***************************************************************************)
EXTENDS Integers, Sequences, FiniteSets, TLC

\* ------------------------------------------------------------------ bounds
MaxRequests == 2      \* request rows created in one behaviour
MaxEntityId == 2      \* largest row id of a Group or a Character
MaxImages == 2        \* image ids the generator may draw
NumThreads == 2       \* thread-pool handlers in flight
ReviewThreads == 1    \* of them, beside a review
NumUploads == 1       \* upload_single_image calls suspended at their await
MaxReviews == 2       \* approve calls that reach the row, per request
QuotaRequests == 7    \* request rows created in one behaviour of the quota
MaxNow == 2           \* days that pass in one behaviour
MaxLogins == 2        \* sessions created in one behaviour

\* ------------------------------------------------------- program constants
GUEST_DAILY_LIMIT == 5
\* session lifetimes, in days (the code holds them in seconds)
USER_SESSION_TIMEOUT == 7
GUEST_SESSION_TIMEOUT == 1

\* ------------------------------------------------------------------ values
NoId == 0              \* Python None for an integer column
NoStr == "None"        \* Python None for a string column
NoCookie == "nocookie" \* a request that carries no session_id cookie

PENDING == "pending"
APPROVED == "approved"
REJECTED == "rejected"

ROOT == "root"
ADMIN == "admin"
USER == "user"

RequestTypes ==
    {"add", "edit", "delete", "group_add", "group_edit", "group_delete",
     "character_add", "character_edit", "character_delete"}

Ips == {"ip1"}
ImageIds == 1..MaxImages
LoopSlot == 0
ThreadSlots == 1..NumThreads
UploadSlots == (NumThreads + 1)..(NumThreads + NumUploads)
Slots == {LoopSlot} \cup ThreadSlots \cup UploadSlots

\* ----------------------------------------------------------------- helpers
Max(S) == IF S = {} THEN 0 ELSE CHOOSE x \in S : \A y \in S : y <= x

\* SQLite rowid of a new row of a table without AUTOINCREMENT: max(rowid)+1
NextRowId(ids) == Max(ids) + 1

Has(d, k) == k \in DOMAIN d
\* dict.get(k) of a JSON object with integer values
GetId(d, k) == IF Has(d, k) THEN d[k] ELSE NoId
\* dict.get(k) of a JSON object with string values
GetStr(d, k) == IF Has(d, k) THEN d[k] ELSE NoStr

\* An attribute of a pydantic update object: a field the caller did not send
\* reads as None.  The DOMAIN of the record is the set of fields sent, which
\* is what dict(exclude_unset=True) keeps.
NoIds == {NoId}
NoList == <<"None">>
Attr(upd, k) ==
    IF Has(upd, k) THEN upd[k]
    ELSE IF k = "character_ids" THEN NoIds
    ELSE IF k = "nicknames" THEN NoList
    ELSE IF k = "group_id" THEN NoId
    ELSE NoStr

\* json.dumps / json.loads of the payload column: the column holds text
JsonDumps(d) == <<"json", d>>
JsonLoads(s) == s[2]
NoData == <<>>                         \* image_data IS NULL
EmptyDict == [x \in {} |-> NoId]       \* {}
\* json.loads(req.image_data) if req.image_data else {}
LoadData(col) == IF col = NoData THEN EmptyDict ELSE JsonLoads(col)

\* A file that is not there.
NoFile == [there |-> FALSE]

VARIABLES
    users,          \* users table: id -> role
    sessions,       \* user_sessions table: token -> row
    guestLimits,    \* guest_limits table: set of rows
    requests,       \* pending_requests table: id -> row
    groups,         \* groups table: set of rows
    characters,     \* characters table (with nicknames and image links)
    images,         \* images table: set of rows
    pendingFiles,   \* files in resource/pending (quarantine)
    tempFiles,      \* files in resource/temp
    storeFiles,     \* files in resource/store
    now,            \* the clock, in days
    calls,          \* handlers in flight: slot -> frame
    loopOwner,      \* TRUE while a handler runs on the event loop
    budget,         \* request rows that may be created in this behaviour
    created,        \* number of request rows created so far
    applied,        \* serial -> catalog mutations committed by approvals
    approvals,      \* serial -> approve calls that reached it, and succeeded
    withdrawn,      \* request ids whose withdrawal was committed
    snapshot,       \* picmanager.db.snapshot: the tables it holds, or no file
    liveFile,       \* picmanager.db is there
    issued,         \* session ids handed out by create_session so far
    phase,          \* how far the process is: stopped, starting, serving
    commit_counter, \* _commit_counter
    snapshot_lock,  \* _snapshot_lock is held
    scheduler,      \* _snapshot_daily_thread_started and the worker threads
    audit,          \* what was committed, registered and copied (not in the code)
    last            \* what the last step answered, if it ended a call

fileVars == <<pendingFiles, tempFiles, storeFiles>>
restartVars == <<snapshot, liveFile, issued>>
durableVars == <<phase, commit_counter, snapshot_lock, scheduler, audit>>
catalogVars == <<groups, characters, images, storeFiles>>
vars == <<users, sessions, guestLimits, requests, groups, characters, images,
          pendingFiles, tempFiles, storeFiles, now, calls, loopOwner,
          budget, created, applied, approvals, withdrawn,
          snapshot, liveFile, issued, phase, commit_counter, snapshot_lock,
          scheduler, audit, last>>

Idle == [op |-> "idle"]
NoCall == [op |-> "none"]

\* ------------------------------------------------------------ table access
GroupById(id) == {g \in groups : g.id = id}
GroupByDescription(n) == {g \in groups : g.description = n}
GroupByName(n) == {g \in groups : g.name = n}
CharById(id) == {c \in characters : c.id = id}
CharByGroupName(gid, n) == {c \in characters : c.group_id = gid /\ c.name = n}
ImageById(id) == {i \in images : i.image_id = id}
GroupIds == {g.id : g \in groups}
CharIds == {c.id : c \in characters}

IsAdminRole(r) == r \in {ROOT, ADMIN}

\* ------------------------------------------------------------ the services
\* The catalog tables a service reads and writes, as one value.
Cat == [groups |-> groups, characters |-> characters, images |-> images]

\* A service's outcome: ok (the service's return value is truthy), err (the
\* exception it raised, "" when none) and the tables after its commit.
SvcOk(c) == [ok |-> TRUE, err |-> "", cat |-> c]
SvcNone(c) == [ok |-> FALSE, err |-> "", cat |-> c]
SvcRaise(c, e) == [ok |-> FALSE, err |-> e, cat |-> c]

RECURSIVE Dedupe(_, _)
Dedupe(seq, seen) ==
    IF seq = <<>> THEN <<>>
    ELSE IF Head(seq) = "" \/ Head(seq) \in seen THEN Dedupe(Tail(seq), seen)
    ELSE <<Head(seq)>> \o Dedupe(Tail(seq), seen \cup {Head(seq)})

\* CharacterService._normalize_nicknames: None gives [], blank entries are
\* dropped and duplicates removed keeping the first occurrence.
NormalizeNicknames(n) == IF n = NoList THEN <<>> ELSE Dedupe(n, {})

\* GroupService.create_group: groups.name is UNIQUE and NOT NULL.
GroupServiceCreateGroup(c, name, description) ==
    IF name = NoStr \/ \E g \in c.groups : g.name = name
    THEN SvcRaise(c, "IntegrityError")
    ELSE SvcOk([c EXCEPT !.groups = @ \cup
            {[id |-> NextRowId({g.id : g \in c.groups}), name |-> name,
              description |-> description]}])

\* GroupService.update_group: setattr of every field present in the update.
GroupServiceUpdateGroup(c, group_id, upd) ==
    LET old == {g \in c.groups : g.id = group_id} IN
    IF old = {} THEN SvcNone(c)
    ELSE LET g == CHOOSE x \in old : TRUE
             new == [id |-> g.id,
                     name |-> IF Has(upd, "name") THEN upd.name ELSE g.name,
                     description |-> IF Has(upd, "description")
                                     THEN upd.description ELSE g.description]
         IN IF new.name = NoStr
               \/ \E o \in c.groups : o.id # g.id /\ o.name = new.name
            THEN SvcRaise(c, "IntegrityError")
            ELSE SvcOk([c EXCEPT !.groups = (@ \ {g}) \cup {new}])

\* Deleting Character rows: their nicknames go with them (delete-orphan) and
\* so do their rows of image_character_association.
DropCharacters(c, ids) ==
    [c EXCEPT !.characters = {ch \in @ : ch.id \notin ids},
              !.images = {[i EXCEPT !.characters = @ \ ids] : i \in @}]

\* GroupService.delete_group: the relationship cascades to the characters.
GroupServiceDeleteGroup(c, group_id) ==
    IF \A g \in c.groups : g.id # group_id THEN SvcNone(c)
    ELSE LET owned == {ch.id : ch \in {x \in c.characters : x.group_id = group_id}}
             c1 == DropCharacters(c, owned)
         IN SvcOk([c1 EXCEPT !.groups = {g \in @ : g.id # group_id}])

\* CharacterService.create_character, first commit: the row without its
\* nicknames.  characters.name is NOT NULL; SQLite does not enforce the
\* foreign key to groups and there is no unique index on (group_id, name).
CharacterServiceCreateCharacter(c, name, group_id, description) ==
    IF name = NoStr \/ group_id = NoId THEN SvcRaise(c, "IntegrityError")
    ELSE SvcOk([c EXCEPT !.characters = @ \cup
            {[id |-> NextRowId({ch.id : ch \in c.characters}), name |-> name,
              group_id |-> group_id, description |-> description,
              nicknames |-> <<>>]}])

\* The second commit of create_character and of update_character: the
\* nickname rows of the character are replaced.
CharacterServiceSetNicknames(c, character_id, nicknames) ==
    [c EXCEPT !.characters =
        {IF ch.id = character_id
         THEN [ch EXCEPT !.nicknames = NormalizeNicknames(nicknames)]
         ELSE ch : ch \in @}]

\* CharacterService.update_character, first commit: every field present in
\* the update except nicknames.
CharacterServiceUpdateCharacter(c, character_id, upd) ==
    LET old == {ch \in c.characters : ch.id = character_id} IN
    IF old = {} THEN SvcNone(c)
    ELSE LET ch == CHOOSE x \in old : TRUE
             new == [ch EXCEPT
                 !.name = IF Has(upd, "name") THEN upd.name ELSE @,
                 !.group_id = IF Has(upd, "group_id") THEN upd.group_id ELSE @,
                 !.description = IF Has(upd, "description")
                                 THEN upd.description ELSE @]
         IN IF new.name = NoStr \/ new.group_id = NoId
            THEN SvcRaise(c, "IntegrityError")
            ELSE SvcOk([c EXCEPT !.characters = (@ \ {ch}) \cup {new}])

\* CharacterService.delete_character
CharacterServiceDeleteCharacter(c, character_id) ==
    IF \A ch \in c.characters : ch.id # character_id THEN SvcNone(c)
    ELSE SvcOk(DropCharacters(c, {character_id}))

\* generate_image_id: secrets.token_hex(5).upper(), the ten hexadecimal
\* digits of five random bytes.  The model names an image by the number k
\* the bytes make; this is the text of the id.
HexDigits ==
    <<"0", "1", "2", "3", "4", "5", "6", "7", "8", "9", "A", "B", "C", "D",
      "E", "F">>
RECURSIVE token_hex_upper(_, _)
token_hex_upper(digits, k) ==
    IF digits = 0 THEN <<>>
    ELSE Append(token_hex_upper(digits - 1, k \div 16), HexDigits[(k % 16) + 1])
generate_image_id(k) == token_hex_upper(2 * 5, k)
\* ImageService.generate_image_id, inside the loop of create_image: an id no
\* Image row has.
FreshImageIds(c) == ImageIds \ {i.image_id : i \in c.images}

\* ImageService.create_image: the row, linked to the characters that exist.
ImageServiceCreateImage(c, image_id, pid, description, character_ids) ==
    SvcOk([c EXCEPT !.images = @ \cup
        {[image_id |-> image_id, pid |-> pid, description |-> description,
          characters |-> character_ids \cap {ch.id : ch \in c.characters}]}])

\* ImageService.update_image: pid and description when set in the update,
\* the character links when character_ids is not None.
ImageServiceUpdateImage(c, image_id, upd) ==
    LET old == {i \in c.images : i.image_id = image_id} IN
    IF old = {} THEN SvcNone(c)
    ELSE LET i == CHOOSE x \in old : TRUE
             new == [i EXCEPT
                 !.pid = IF Has(upd, "pid") THEN upd.pid ELSE @,
                 !.description = IF Has(upd, "description")
                                 THEN upd.description ELSE @,
                 !.characters =
                     IF Has(upd, "character_ids") /\ upd.character_ids # NoIds
                     THEN upd.character_ids \cap {ch.id : ch \in c.characters}
                     ELSE @]
         IN SvcOk([c EXCEPT !.images = (@ \ {i}) \cup {new}])

\* ImageService.delete_image: the row (its file is removed by the caller of
\* this operator, see StoreAfterDelete).
ImageServiceDeleteImage(c, image_id) ==
    IF \A i \in c.images : i.image_id # image_id THEN SvcNone(c)
    ELSE SvcOk([c EXCEPT !.images = {i \in @ : i.image_id # image_id}])

\* ------------------------------------------------------------ the sessions
NoSession == [found |-> FALSE]

\* get_session, the value returned: None for an unknown token and for a row
\* whose expires_at <= utcnow().
ExpiredAfter(row) == row.expires_at < now
Expired(row) == row.expires_at <= now

GetSession(token) ==
    IF token \notin DOMAIN sessions THEN NoSession
    ELSE IF Expired(sessions[token]) THEN NoSession
    ELSE [found |-> TRUE, user_id |-> sessions[token].user_id,
          is_guest |-> sessions[token].is_guest,
          guest_ip |-> sessions[token].guest_ip]

\* get_session, the table after its commit: an expired row is deleted, a
\* valid one gets last_activity = utcnow().
SessionsAfterGetSliding(token) ==
    IF token \notin DOMAIN sessions THEN sessions
    ELSE IF Expired(sessions[token])
    THEN [t \in DOMAIN sessions \ {token} |-> sessions[t]]
    ELSE [sessions EXCEPT
            ![token].last_activity = now,
            ![token].expires_at = now + (@ - sessions[token].created_at)]
SessionsAfterGet(token) ==
    IF token \notin DOMAIN sessions THEN sessions
    ELSE IF Expired(sessions[token])
    THEN [t \in DOMAIN sessions \ {token} |-> sessions[t]]
    ELSE [sessions EXCEPT ![token].last_activity = now]

\* get_current_session: no cookie, no lookup.
GetCurrentSession(cookie) ==
    IF cookie = NoCookie THEN NoSession ELSE GetSession(cookie)
SessionsAfterCurrent(cookie) ==
    IF cookie = NoCookie THEN sessions ELSE SessionsAfterGet(cookie)

\* ------------------------------------------------------------ guest quota
Today == now
NoWrite == [kind |-> "none"]

\* .first() of the rows of (ip, today): the one with the smallest rowid
FirstQuotaRow(ip, day) ==
    LET rows == {r \in guestLimits : r.ip_address = ip /\ r.date = day}
    IN IF rows = {} THEN {}
       ELSE {CHOOSE r \in rows : \A q \in rows : r.id <= q.id}

\* check_guest_limit refusing one operation before the limit.
check_guest_limit_early(ip, day) ==
    LET found == FirstQuotaRow(ip, day) IN
    IF found = {}
    THEN [allowed |-> TRUE,
          write |-> [kind |-> "insert", ip_address |-> ip, date |-> day,
                     operation_count |-> 1]]
    ELSE LET r == CHOOSE x \in found : TRUE IN
         IF r.operation_count >= GUEST_DAILY_LIMIT - 1
         THEN [allowed |-> FALSE, write |-> NoWrite]
         ELSE [allowed |-> TRUE,
               write |-> [kind |-> "update", id |-> r.id,
                          operation_count |-> r.operation_count + 1]]

\* check_guest_limit refusing only above the limit.
check_guest_limit_above(ip, day) ==
    LET found == FirstQuotaRow(ip, day) IN
    IF found = {}
    THEN [allowed |-> TRUE,
          write |-> [kind |-> "insert", ip_address |-> ip, date |-> day,
                     operation_count |-> 1]]
    ELSE LET r == CHOOSE x \in found : TRUE IN
         IF r.operation_count > GUEST_DAILY_LIMIT
         THEN [allowed |-> FALSE, write |-> NoWrite]
         ELSE [allowed |-> TRUE,
               write |-> [kind |-> "update", id |-> r.id,
                          operation_count |-> r.operation_count + 1]]

\* check_guest_limit that never refuses.
check_guest_limit_unlimited(ip, day) ==
    LET found == FirstQuotaRow(ip, day) IN
    IF found = {}
    THEN [allowed |-> TRUE,
          write |-> [kind |-> "insert", ip_address |-> ip, date |-> day,
                     operation_count |-> 1]]
    ELSE LET r == CHOOSE x \in found : TRUE IN
         [allowed |-> TRUE,
          write |-> [kind |-> "update", id |-> r.id,
                     operation_count |-> r.operation_count + 1]]
\* check_guest_limit: the answer, and the change it leaves in the caller's
\* database session, written by the caller's next commit.  The new count is
\* computed from the count that was read.
check_guest_limit(ip, day) ==
    LET found == FirstQuotaRow(ip, day) IN
    IF found = {}
    THEN [allowed |-> TRUE,
          write |-> [kind |-> "insert", ip_address |-> ip, date |-> day,
                     operation_count |-> 1]]
    ELSE LET r == CHOOSE x \in found : TRUE IN
         IF r.operation_count >= GUEST_DAILY_LIMIT
         THEN [allowed |-> FALSE, write |-> NoWrite]
         ELSE [allowed |-> TRUE,
               write |-> [kind |-> "update", id |-> r.id,
                          operation_count |-> r.operation_count + 1]]

\* The flush of that change: INSERT of a new row, or
\* UPDATE guest_limits SET operation_count = <new count> WHERE id = <id>.
FlushQuota(w) ==
    IF w.kind = "insert"
    THEN guestLimits \cup
         {[id |-> NextRowId({r.id : r \in guestLimits}),
           ip_address |-> w.ip_address, date |-> w.date,
           operation_count |-> w.operation_count]}
    ELSE IF w.kind = "update"
    THEN {IF r.id = w.id THEN [r EXCEPT !.operation_count = w.operation_count]
          ELSE r : r \in guestLimits}
    ELSE guestLimits

\* ------------------------------------------------------- who is calling
\* The prologue shared by the submission handlers of api.py: the session,
\* then for a guest the quota, for a user the role.
Identify(cookie) ==
    LET s == GetCurrentSession(cookie) IN
    IF ~s.found
    THEN [kind |-> "anon", user_id |-> NoId, guest_ip |-> NoStr,
          is_admin |-> FALSE, quota |-> [allowed |-> TRUE, write |-> NoWrite],
          consumed |-> FALSE]
    ELSE IF s.is_guest
    THEN LET q == check_guest_limit(s.guest_ip, Today) IN
         [kind |-> "guest", user_id |-> NoId, guest_ip |-> s.guest_ip,
          is_admin |-> FALSE, quota |-> q, consumed |-> q.allowed]
    ELSE IF s.user_id \in DOMAIN users
    THEN [kind |-> IF IsAdminRole(users[s.user_id]) THEN "admin" ELSE "user",
          user_id |-> s.user_id, guest_ip |-> NoStr,
          is_admin |-> IsAdminRole(users[s.user_id]),
          quota |-> [allowed |-> TRUE, write |-> NoWrite], consumed |-> FALSE]
    ELSE [kind |-> "anon", user_id |-> NoId, guest_ip |-> NoStr,
          is_admin |-> FALSE, quota |-> [allowed |-> TRUE, write |-> NoWrite],
          consumed |-> FALSE]

\* upload_temp_image resolves the session but never asks for the quota.
IdentifyNoQuota(cookie) ==
    LET i == Identify(cookie) IN
    [i EXCEPT !.quota = [allowed |-> TRUE, write |-> NoWrite],
              !.consumed = FALSE,
              !.guest_ip = NoStr]

\* --------------------------------------------------- frames of the handlers
SubmitKinds ==
    {"create_group", "update_group", "delete_group", "create_character",
     "update_character", "delete_character", "update_image", "delete_image",
     "upload_single_image", "upload_temp_image"}

\* Handlers in flight that insert a pending_requests row, and those that
\* create an Image: the bounds count them before a new one may start.
InFlight(ops) == Cardinality({s \in Slots : calls[s].op \in ops})
RequestRoom == created + InFlight(SubmitKinds) < budget
ImageRoom ==
    Cardinality(images)
      + InFlight({"upload_single_image", "upload_temp_image"})
      + Cardinality({s \in Slots : calls[s].op = "approve"
                                   /\ calls[s].type = "add"})
      < MaxImages
EntityRoom(ids) == Max(ids) < MaxEntityId

\* A call returns: its frame goes, the loop is released when it ran on it.
Return(s, op, kind, result, serial) ==
    /\ calls' = [calls EXCEPT ![s] = Idle]
    /\ loopOwner' = IF s \in ThreadSlots THEN loopOwner ELSE FALSE
    /\ last' = [op |-> op, kind |-> kind, result |-> result, serial |-> serial]

\* A call goes on to its next step.
Running == [op |-> "none", kind |-> "none", result |-> "running", serial |-> 0]
Goto(s, frame, serial) ==
    /\ calls' = [calls EXCEPT ![s] = frame]
    /\ last' = Running

\* ----------------------------------------- the submission handlers (api.py)
\* The checks a handler makes before it looks at the session.
PreError(kind, a) ==
    CASE kind = "create_group" ->
            IF GroupByName(a.name) # {} THEN "400:duplicate" ELSE ""
      [] kind = "create_character" ->
            IF CharByGroupName(a.group_id, a.name) # {}
            THEN "400:duplicate" ELSE ""
      [] kind = "upload_single_image" ->
            IF ~a.ext_ok THEN "400:file_type" ELSE ""
      [] kind = "upload_temp_image" ->
            IF a.filename \notin tempFiles THEN "404"
            ELSE IF ~a.ext_ok THEN "400:file_type" ELSE ""
      [] OTHER -> ""

AllCharsExist(ids) == ids \subseteq CharIds

\* The checks a handler makes after the session and the quota.
PostError(kind, a, is_admin) ==
    CASE kind \in {"update_group", "delete_group"} ->
            IF GroupById(a.group_id) = {} THEN "404" ELSE ""
      [] kind = "create_character" ->
            IF GroupById(a.group_id) = {} THEN "400:no_group" ELSE ""
      [] kind = "update_character" ->
            IF CharById(a.character_id) = {} THEN "404"
            ELSE IF Attr(a.upd, "group_id") # NoId
                    /\ GroupById(a.upd.group_id) = {}
            THEN "400:no_group" ELSE ""
      [] kind = "delete_character" ->
            IF CharById(a.character_id) = {} THEN "404" ELSE ""
      [] kind = "update_image" ->
            IF ImageById(a.image_id) = {} THEN "404"
            ELSE IF Attr(a.upd, "character_ids") # NoIds
                    /\ ~AllCharsExist(a.upd.character_ids)
            THEN "400:no_character" ELSE ""
      [] kind = "delete_image" ->
            IF ImageById(a.image_id) = {} THEN "404" ELSE ""
      [] kind = "upload_temp_image" ->
            IF ~AllCharsExist(a.character_ids) THEN "400:no_character" ELSE ""
      [] kind = "upload_single_image" ->
            IF is_admin THEN ""
            ELSE IF ~AllCharsExist(a.character_ids) THEN "400:no_character"
            ELSE IF a.group_id # NoId /\ GroupById(a.group_id) = {}
            THEN "400:no_group" ELSE ""
      [] OTHER -> ""

NoTime == -1           \* reviewed_at IS NULL

\* A pending_requests row.  serial and consumed are not columns: serial
\* numbers the rows in the order of their creation (a rowid can be reused),
\* consumed records that the submission took one unit of the guest quota.
RequestRow(serial, type, status, id, image_id, data, temp, fname, by, at) ==
    [serial |-> serial, request_type |-> type, status |-> status,
     user_id |-> id.user_id, guest_ip |-> id.guest_ip, image_id |-> image_id,
     image_data |-> data, temp_file_path |-> temp, original_filename |-> fname,
     rejection_reason |-> NoStr, reviewed_at |-> at, reviewed_by |-> by,
     consumed |-> id.consumed]

\* update_data[key] = value on the dict of the fields sent
WithKey(upd, key, value) ==
    [k \in DOMAIN upd \cup {key} |-> IF k = key THEN value ELSE upd[k]]

\* The row a handler queues for a caller who is not an administrator.
PendingRow(kind, a, id, n) ==
    CASE kind = "create_group" ->
            RequestRow(n, "group_add", PENDING, id, NoId,
                JsonDumps([name |-> a.name, description |-> a.description]),
                NoId, NoStr, NoId, NoTime)
      [] kind = "update_group" ->
            RequestRow(n, "group_edit", PENDING, id, NoId,
                JsonDumps(WithKey(a.upd, "group_id", a.group_id)),
                NoId, NoStr, NoId, NoTime)
      [] kind = "delete_group" ->
            RequestRow(n, "group_delete", PENDING, id, NoId,
                JsonDumps([group_id |-> a.group_id]), NoId, NoStr, NoId, NoTime)
      [] kind = "create_character" ->
            RequestRow(n, "character_add", PENDING, id, NoId,
                JsonDumps([name |-> a.name, group_id |-> a.group_id,
                           description |-> a.description,
                           nicknames |-> a.nicknames]),
                NoId, NoStr, NoId, NoTime)
      [] kind = "update_character" ->
            RequestRow(n, "character_edit", PENDING, id, NoId,
                JsonDumps(WithKey(a.upd, "character_id", a.character_id)),
                NoId, NoStr, NoId, NoTime)
      [] kind = "delete_character" ->
            RequestRow(n, "character_delete", PENDING, id, NoId,
                JsonDumps([character_id |-> a.character_id]),
                NoId, NoStr, NoId, NoTime)
      [] kind = "update_image" ->
            RequestRow(n, "edit", PENDING, id, a.image_id,
                JsonDumps([pid |-> Attr(a.upd, "pid"),
                           description |-> Attr(a.upd, "description"),
                           character_ids |-> Attr(a.upd, "character_ids")]),
                NoId, NoStr, NoId, NoTime)
      [] kind = "delete_image" ->
            RequestRow(n, "delete", PENDING, id, a.image_id, NoData,
                NoId, NoStr, NoId, NoTime)
      [] kind = "upload_single_image" ->
            RequestRow(n, "add", PENDING, id, NoId,
                JsonDumps([character_ids |-> a.character_ids,
                           group_id |-> a.group_id, pid |-> a.pid,
                           description |-> a.description]),
                n, a.filename, NoId, NoTime)

\* The row that credits an administrator's own upload: approved from the
\* start, reviewed by the uploader.
LedgerRow(a, id, n, image_id) ==
    RequestRow(n, "add", APPROVED, id, image_id,
        JsonDumps([character_ids |-> a.character_ids,
                   group_id |-> IF Has(a, "group_id") THEN a.group_id ELSE NoId,
                   pid |-> a.pid, description |-> a.description]),
        NoId, NoStr, id.user_id, now)

\* INSERT INTO pending_requests
InsertRequest(row) ==
    LET rid == NextRowId(DOMAIN requests) IN
    [r \in DOMAIN requests \cup {rid} |->
        IF r = rid THEN row ELSE requests[r]]

\* The service an administrator's submission calls (first commit).
AdminService(kind, a, c) ==
    CASE kind = "create_group" ->
            GroupServiceCreateGroup(c, a.name, a.description)
      [] kind = "update_group" -> GroupServiceUpdateGroup(c, a.group_id, a.upd)
      [] kind = "delete_group" -> GroupServiceDeleteGroup(c, a.group_id)
      [] kind = "create_character" ->
            CharacterServiceCreateCharacter(c, a.name, a.group_id, a.description)
      [] kind = "update_character" ->
            CharacterServiceUpdateCharacter(c, a.character_id, a.upd)
      [] kind = "delete_character" ->
            CharacterServiceDeleteCharacter(c, a.character_id)
      [] kind = "update_image" -> ImageServiceUpdateImage(c, a.image_id, a.upd)
      [] kind = "delete_image" -> ImageServiceDeleteImage(c, a.image_id)

\* The nickname commit that follows the first commit of create_character
\* (when the normalised list is not empty) and of update_character (when the
\* update carries nicknames): the character and the list, or none.
NoNick == [character_id |-> NoId]
NickAfter(kind, a, c) ==
    IF kind = "create_character" /\ NormalizeNicknames(a.nicknames) # <<>>
    THEN [character_id |-> NextRowId({ch.id : ch \in c.characters}),
          nicknames |-> a.nicknames]
    ELSE IF kind = "update_character" /\ Has(a.upd, "nicknames")
    THEN [character_id |-> a.character_id, nicknames |-> a.upd.nicknames]
    ELSE NoNick

ThreadKinds == SubmitKinds \ {"upload_single_image"}

\* A thread-pool handler of api.py, up to its first write other than the
\* session's: the early checks, the session, the quota, the later checks.
SubmitBegin(s, kind, cookie, a) ==
    /\ s \in ThreadSlots /\ kind \in ThreadKinds
    /\ calls[s] = Idle
    /\ RequestRoom
    /\ kind = "create_group" => EntityRoom(GroupIds)
    /\ kind = "create_character" => EntityRoom(CharIds)
    /\ kind = "upload_temp_image" => ImageRoom
    /\ LET pre == PreError(kind, a)
           id == IF kind = "upload_temp_image" THEN IdentifyNoQuota(cookie)
                 ELSE Identify(cookie)
           post == PostError(kind, a, id.is_admin)
       IN IF pre # ""
          THEN /\ Return(s, kind, id.kind, pre, 0)
               /\ UNCHANGED sessions
          ELSE /\ sessions' = SessionsAfterCurrent(cookie)
               /\ IF ~id.quota.allowed THEN Return(s, kind, id.kind, "429", 0)
                  ELSE IF post # "" THEN Return(s, kind, id.kind, post, 0)
                  ELSE /\ Goto(s, [op |-> kind, pc |-> "commit", id |-> id,
                                   a |-> a], 0)
                       /\ UNCHANGED loopOwner
    /\ UNCHANGED <<users, guestLimits, requests, groups, characters, images,
                   pendingFiles, tempFiles, storeFiles, now, budget, created, applied,
                   approvals, withdrawn, restartVars, durableVars>>

\* The caller is not an administrator: one commit writes the quota row and
\* the pending request.
SubmitQueue(s) ==
    LET f == calls[s] IN
    /\ s \in ThreadSlots /\ f.op \in ThreadKinds \ {"upload_temp_image"}
    /\ f.pc = "commit" /\ ~f.id.is_admin
    /\ guestLimits' = FlushQuota(f.id.quota.write)
    /\ requests' = InsertRequest(PendingRow(f.op, f.a, f.id, created + 1))
    /\ created' = created + 1
    /\ Return(s, f.op, f.id.kind, "queued", created + 1)
    /\ UNCHANGED <<users, sessions, groups, characters, images, pendingFiles,
                   tempFiles, storeFiles, now, budget, applied, approvals, withdrawn, restartVars, durableVars>>

\* The caller is an administrator: the service commits the mutation.
SubmitDirect(s) ==
    LET f == calls[s]
        r == AdminService(f.op, f.a, Cat)
        nick == NickAfter(f.op, f.a, Cat)
    IN
    /\ s \in ThreadSlots /\ f.op \in ThreadKinds \ {"upload_temp_image"}
    /\ f.pc = "commit" /\ f.id.is_admin
    /\ IF r.err # ""
       THEN /\ Return(s, f.op, f.id.kind, "500", 0)
            /\ UNCHANGED <<groups, characters, images, storeFiles>>
       ELSE IF ~r.ok
       THEN /\ Return(s, f.op, f.id.kind,
                      IF f.op \in {"update_group", "update_character"}
                      THEN "200:null" ELSE "404", 0)
            /\ UNCHANGED <<groups, characters, images, storeFiles>>
       ELSE /\ groups' = r.cat.groups
            /\ characters' = r.cat.characters
            /\ images' = r.cat.images
            /\ storeFiles' = IF f.op = "delete_image"
                             THEN storeFiles \ {f.a.image_id} ELSE storeFiles
            /\ IF nick = NoNick THEN Return(s, f.op, f.id.kind, "applied", 0)
               ELSE /\ Goto(s, [f EXCEPT !.pc = "nick", !.a = nick], 0)
                    /\ UNCHANGED loopOwner
    /\ UNCHANGED <<users, sessions, guestLimits, requests, pendingFiles,
                   tempFiles, now, budget, created, applied, approvals, withdrawn, restartVars, durableVars>>

\* The second commit of create_character / update_character.
SubmitNick(s) ==
    LET f == calls[s] IN
    /\ s \in ThreadSlots /\ f.op \in {"create_character", "update_character"}
    /\ f.pc = "nick"
    /\ characters' =
         CharacterServiceSetNicknames(Cat, f.a.character_id, f.a.nicknames).characters
    /\ Return(s, f.op, f.id.kind, "applied", 0)
    /\ UNCHANGED <<users, sessions, guestLimits, requests, groups, images,
                   pendingFiles, tempFiles, storeFiles, now, budget, created, applied,
                   approvals, withdrawn, restartVars, durableVars>>

\* upload_temp_image: ImageService.create_image for whoever calls; the file
\* is copied into the store, then the row is committed.
UploadTempCreate(s) ==
    LET f == calls[s] IN
    /\ s \in ThreadSlots /\ f.op = "upload_temp_image" /\ f.pc = "commit"
    /\ IF f.a.filename \notin tempFiles
       THEN /\ Return(s, f.op, f.id.kind, "500", 0)
            /\ UNCHANGED <<images, storeFiles>>
       ELSE \E iid \in FreshImageIds(Cat) :
            /\ storeFiles' = storeFiles \cup {iid}
            /\ images' = ImageServiceCreateImage(Cat, iid, f.a.pid,
                             f.a.description, f.a.character_ids).cat.images
            /\ Goto(s, [f EXCEPT !.pc = IF f.id.is_admin /\ f.id.user_id # NoId
                                        THEN "ledger" ELSE "unlink",
                                 !.a = WithKey(f.a, "image_id", iid)], 0)
            /\ UNCHANGED loopOwner
    /\ UNCHANGED <<users, sessions, guestLimits, requests, groups, characters,
                   pendingFiles, tempFiles, now, budget, created, applied, approvals, withdrawn, restartVars, durableVars>>

\* upload_temp_image, an administrator's: the row that credits the upload.
UploadTempLedger(s) ==
    LET f == calls[s] IN
    /\ s \in ThreadSlots /\ f.op = "upload_temp_image" /\ f.pc = "ledger"
    /\ requests' = InsertRequest(LedgerRow(f.a, f.id, created + 1, f.a.image_id))
    /\ created' = created + 1
    /\ Goto(s, [f EXCEPT !.pc = "unlink"], created + 1)
    /\ UNCHANGED <<users, sessions, guestLimits, groups, characters, images,
                   pendingFiles, tempFiles, storeFiles, now, budget, loopOwner, applied,
                   approvals, withdrawn, restartVars, durableVars>>

\* upload_temp_image: the file in resource/temp is removed.
UploadTempUnlink(s) ==
    LET f == calls[s] IN
    /\ s \in ThreadSlots /\ f.op = "upload_temp_image" /\ f.pc = "unlink"
    /\ tempFiles' = tempFiles \ {f.a.filename}
    /\ Return(s, f.op, f.id.kind, "applied", 0)
    /\ UNCHANGED <<users, sessions, guestLimits, requests, groups, characters,
                   images, pendingFiles, storeFiles, now, budget, created, applied,
                   approvals, withdrawn, restartVars, durableVars>>

\* ------------------------------------------ upload_single_image (the loop)
\* Up to `await file.read()`: the early checks, the session, the quota.
UploadSingleBegin(s, cookie, a) ==
    /\ s \in UploadSlots /\ calls[s] = Idle /\ ~loopOwner
    /\ RequestRoom /\ ImageRoom
    /\ LET pre == PreError("upload_single_image", a)
           id == Identify(cookie)
       IN IF pre # ""
          THEN /\ Return(s, "upload_single_image", id.kind, pre, 0)
               /\ UNCHANGED sessions
          ELSE /\ sessions' = SessionsAfterCurrent(cookie)
               /\ IF ~id.quota.allowed
                  THEN Return(s, "upload_single_image", id.kind, "429", 0)
                  ELSE /\ Goto(s, [op |-> "upload_single_image",
                                   pc |-> "await", id |-> id, a |-> a], 0)
                       /\ UNCHANGED loopOwner
    /\ UNCHANGED <<users, guestLimits, requests, groups, characters, images,
                   pendingFiles, tempFiles, storeFiles, now, budget, created, applied,
                   approvals, withdrawn, restartVars, durableVars>>

\* After the await, for a caller who is not an administrator: the checks of
\* the characters and the group, then the file is written to the quarantine.
\* The file name is a uuid; the model names the file by the serial of the
\* request it is written for.
UploadSingleResume(s) ==
    LET f == calls[s]
        post == PostError(f.op, f.a, f.id.is_admin)
    IN
    /\ s \in UploadSlots /\ f.op = "upload_single_image" /\ f.pc = "await"
    /\ ~loopOwner
    /\ IF post # ""
       THEN /\ Return(s, f.op, f.id.kind, post, 0)
            /\ UNCHANGED <<pendingFiles, created>>
       ELSE IF f.id.is_admin
       THEN /\ Goto(s, [f EXCEPT !.pc = "commit"], 0)
            /\ loopOwner' = TRUE
            /\ UNCHANGED <<pendingFiles, created>>
       ELSE /\ pendingFiles' = pendingFiles \cup {created + 1}
            /\ created' = created + 1
            /\ Goto(s, [f EXCEPT !.pc = "commit",
                                 !.a = WithKey(f.a, "serial", created + 1)],
                    created + 1)
            /\ loopOwner' = TRUE
    /\ UNCHANGED <<users, sessions, guestLimits, requests, groups, characters,
                   images, tempFiles, storeFiles, now, budget, applied, approvals, withdrawn, restartVars, durableVars>>

\* The commit of the quota row and the pending request (not an
\* administrator), or create_image (an administrator).
UploadSingleCommit(s) ==
    LET f == calls[s] IN
    /\ s \in UploadSlots /\ f.op = "upload_single_image" /\ f.pc = "commit"
    /\ IF f.id.is_admin
       THEN \E iid \in FreshImageIds(Cat) :
            /\ storeFiles' = storeFiles \cup {iid}
            /\ images' = ImageServiceCreateImage(Cat, iid, f.a.pid,
                             f.a.description, f.a.character_ids).cat.images
            /\ Goto(s, [f EXCEPT !.pc = "ledger",
                                 !.a = WithKey(f.a, "image_id", iid)], 0)
            /\ UNCHANGED <<loopOwner, guestLimits, requests>>
       ELSE /\ guestLimits' = FlushQuota(f.id.quota.write)
            /\ requests' = InsertRequest(
                   PendingRow(f.op, f.a, f.id, f.a.serial))
            /\ Return(s, f.op, f.id.kind, "queued", f.a.serial)
            /\ UNCHANGED <<images, storeFiles>>
    /\ UNCHANGED <<users, sessions, groups, characters, pendingFiles,
                   tempFiles, now, budget, created, applied, approvals, withdrawn, restartVars, durableVars>>

\* An administrator's upload: the row that credits it.
UploadSingleLedger(s) ==
    LET f == calls[s] IN
    /\ s \in UploadSlots /\ f.op = "upload_single_image" /\ f.pc = "ledger"
    /\ requests' = InsertRequest(LedgerRow(f.a, f.id, created + 1, f.a.image_id))
    /\ created' = created + 1
    /\ Return(s, f.op, f.id.kind, "applied", created + 1)
    /\ UNCHANGED <<users, sessions, guestLimits, groups, characters, images,
                   pendingFiles, tempFiles, storeFiles, now, budget, applied, approvals, withdrawn, restartVars, durableVars>>

\* require_admin letting every logged-in user through.
require_admin_any_user(cookie) ==
    LET s == GetCurrentSession(cookie) IN
    IF ~s.found \/ s.is_guest THEN [err |-> "401", user_id |-> NoId]
    ELSE IF s.user_id \notin DOMAIN users THEN [err |-> "401", user_id |-> NoId]
    ELSE [err |-> "", user_id |-> s.user_id]
\* ------------------------------------- handle_pending_request (admin.py)
\* require_admin: "" and the user id for an administrator, else the error.
require_admin(cookie) ==
    LET s == GetCurrentSession(cookie) IN
    IF ~s.found \/ s.is_guest THEN [err |-> "401", user_id |-> NoId]
    ELSE IF s.user_id \notin DOMAIN users THEN [err |-> "401", user_id |-> NoId]
    ELSE IF ~IsAdminRole(users[s.user_id])
    THEN [err |-> "403", user_id |-> NoId]
    ELSE [err |-> "", user_id |-> s.user_id]

Restrict(d, keys) == [k \in DOMAIN d \cap keys |-> d[k]]

\* The group a character_edit checks the new name in: the payload's group,
\* else the group of the character as it is now.
EditGroupOf(d) ==
    IF GetId(d, "group_id") # NoId THEN d.group_id
    ELSE LET old == CharById(GetId(d, "character_id")) IN
         IF old = {} THEN NoId ELSE (CHOOSE c \in old : TRUE).group_id

\* The quarantined file of an image-add is recorded and is on the disk.
TempFileRecorded(row) == row.temp_file_path # NoId
TempFileThere(row) ==
    row.temp_file_path # NoId /\ row.temp_file_path \in pendingFiles

\* The checks of the approve branch that raise before any service is called.
ApproveCheck(row) ==
    LET d == LoadData(row.image_data) IN
    CASE row.request_type = "add" ->
            IF TempFileThere(row) THEN "" ELSE "400:no_temp_file"
      [] row.request_type = "group_add" ->
            IF GroupByName(GetStr(d, "name")) # {} THEN "400:duplicate" ELSE ""
      [] row.request_type = "group_edit" ->
            IF GetId(d, "group_id") = NoId THEN "400:missing_id"
            ELSE IF GetStr(d, "name") # NoStr
                    /\ \E g \in groups : g.name = d.name /\ g.id # d.group_id
            THEN "400:duplicate" ELSE ""
      [] row.request_type = "group_delete" ->
            IF GetId(d, "group_id") = NoId THEN "400:missing_id" ELSE ""
      [] row.request_type = "character_add" ->
            IF CharByGroupName(GetId(d, "group_id"), GetStr(d, "name")) # {}
            THEN "400:duplicate" ELSE ""
      [] row.request_type = "character_edit" ->
            IF GetId(d, "character_id") = NoId THEN "400:missing_id"
            ELSE IF GetStr(d, "name") # NoStr /\ EditGroupOf(d) # NoId
                    /\ \E c \in characters :
                          /\ c.group_id = EditGroupOf(d)
                          /\ c.name = d.name
                          /\ c.id # d.character_id
            THEN "400:duplicate" ELSE ""
      [] row.request_type = "character_delete" ->
            IF GetId(d, "character_id") = NoId THEN "400:missing_id" ELSE ""
      [] OTHER -> ""

\* The request types whose approval calls a service.
MutatingTypesAll == RequestTypes
MutatingTypes == RequestTypes \ {"delete"}

\* The service the approve branch calls (first commit), for every type but
\* "add".  An image edit passes pid, description and character_ids to
\* ImageUpdate explicitly, so all three count as set.
ApproveService(row, c) ==
    LET d == LoadData(row.image_data) IN
    CASE row.request_type = "edit" ->
            ImageServiceUpdateImage(c, row.image_id,
                [pid |-> GetStr(d, "pid"),
                 description |-> GetStr(d, "description"),
                 character_ids |-> IF Has(d, "character_ids")
                                   THEN d.character_ids ELSE NoIds])
      [] row.request_type = "group_add" ->
            GroupServiceCreateGroup(c, GetStr(d, "name"), GetStr(d, "description"))
      [] row.request_type = "group_edit" ->
            GroupServiceUpdateGroup(c, d.group_id,
                Restrict(d, {"name", "description"}))
      [] row.request_type = "group_delete" ->
            GroupServiceDeleteGroup(c, d.group_id)
      [] row.request_type = "character_add" ->
            CharacterServiceCreateCharacter(c, GetStr(d, "name"),
                GetId(d, "group_id"), GetStr(d, "description"))
      [] row.request_type = "character_edit" ->
            CharacterServiceUpdateCharacter(c, d.character_id,
                Restrict(d, {"name", "group_id", "description", "nicknames"}))
      [] row.request_type = "character_delete" ->
            CharacterServiceDeleteCharacter(c, d.character_id)

\* The nickname commit of an approved character_add / character_edit.
ApproveNick(row, c) ==
    LET d == LoadData(row.image_data) IN
    IF row.request_type = "character_add"
    THEN NickAfter("create_character",
                   [nicknames |-> Attr(d, "nicknames")], c)
    ELSE IF row.request_type = "character_edit"
    THEN NickAfter("update_character",
                   [character_id |-> d.character_id,
                    upd |-> Restrict(d, {"nicknames"})], c)
    ELSE NoNick

\* An approve call that has reached the row is counted for the request, and
\* again when it returns success.
Started(action, serial) ==
    IF action = "approve" /\ serial \in DOMAIN approvals
    THEN [approvals EXCEPT ![serial].tried = @ + 1] ELSE approvals

Succeeded(f, result) ==
    IF f.op = "approve" /\ result = "ok" /\ f.serial \in DOMAIN approvals
    THEN [approvals EXCEPT ![f.serial].ok = @ + 1] ELSE approvals

ReviewReturn(f, result) ==
    /\ Return(LoopSlot, f.op, "admin", result, f.serial)
    /\ approvals' = Succeeded(f, result)
    /\ UNCHANGED <<withdrawn, restartVars, durableVars>>

ReviewActions == {"approve", "reject"}

\* The guard on the status that handle_pending_request makes.
AlreadyProcessedOnlyRejected(row) == row.status = REJECTED
AlreadyProcessedNever(row) == FALSE
AlreadyProcessed(row) == row.status # PENDING

\* handle_pending_request up to its first write: require_admin, the row,
\* the status, and for an approval the checks of its type.  A rejection
\* sets the status in the session and removes the quarantined file.  The
\* body of the call carries the action and the reason.
handle_pending_request(cookie, rid, action, reason) ==
    LET auth == require_admin(cookie)
        row == requests[rid]
        chk == ApproveCheck(row)
        f == [op |-> action, pc |-> "stamp", reason |-> reason,
              id |-> [kind |-> "admin", user_id |-> auth.user_id],
              rid |-> rid,
              row |-> IF rid \in DOMAIN requests THEN row ELSE NoCall,
              serial |-> IF rid \in DOMAIN requests THEN row.serial ELSE 0,
              type |-> IF rid \in DOMAIN requests THEN row.request_type
                       ELSE NoStr]
    IN
    /\ calls[LoopSlot] = Idle /\ ~loopOwner
    /\ (action = "approve" /\ rid \in DOMAIN requests)
          => approvals[row.serial].tried < MaxReviews
    /\ sessions' = SessionsAfterCurrent(cookie)
    /\ approvals' = IF auth.err = "" THEN Started(action, f.serial) ELSE approvals
    /\ IF auth.err # ""
       THEN /\ Return(LoopSlot, action, Identify(cookie).kind, auth.err, 0)
            /\ UNCHANGED pendingFiles
       ELSE IF rid \notin DOMAIN requests
       THEN /\ Return(LoopSlot, action, "admin", "404", f.serial) /\ UNCHANGED pendingFiles
       ELSE IF AlreadyProcessed(row)
       THEN /\ Return(LoopSlot, action, "admin", "400:already_processed", f.serial)
            /\ UNCHANGED pendingFiles
       ELSE IF action = "approve"
       THEN /\ row.request_type = "add" => ImageRoom
            /\ IF chk # "" THEN Return(LoopSlot, action, "admin", chk, f.serial)
               ELSE /\ Goto(LoopSlot,
                            [f EXCEPT !.pc = IF row.request_type \in MutatingTypes
                                             THEN "mutate" ELSE "stamp"],
                            row.serial)
                    /\ loopOwner' = TRUE
            /\ UNCHANGED pendingFiles
       ELSE IF action = "reject"
       THEN /\ pendingFiles' = IF row.request_type = "add"
                               THEN pendingFiles \ {row.temp_file_path}
                               ELSE pendingFiles
            /\ Goto(LoopSlot, f, row.serial)
            /\ loopOwner' = TRUE
       ELSE /\ Return(LoopSlot, action, "admin", "400:invalid_action", f.serial)
            /\ UNCHANGED pendingFiles
    /\ UNCHANGED <<users, guestLimits, requests, groups, characters, images,
                   tempFiles, storeFiles, now, budget, created, applied,
                   withdrawn, restartVars, durableVars>>

\* A review whose body carries no reason (reason: Optional[str] = None).
ReviewBegin(cookie, rid, action) ==
    handle_pending_request(cookie, rid, action, NoStr)

\* One more catalog mutation committed by an approval of the request.
Applied(serial) == [applied EXCEPT ![serial] = @ + 1]

\* The approve branch calls its service, which commits.  For "add" that is
\* create_image: a fresh id, the file copied into the store, the row.
ReviewMutate ==
    LET f == calls[LoopSlot]
        r == ApproveService(f.row, Cat)
        nick == ApproveNick(f.row, Cat)
        d == LoadData(f.row.image_data)
    IN
    /\ f.op = "approve" /\ f.pc = "mutate"
    /\ IF f.type = "add"
       THEN IF f.row.temp_file_path \notin pendingFiles
            THEN /\ ReviewReturn(f, "500")
                 /\ UNCHANGED <<groups, characters, images, storeFiles, applied>>
            ELSE \E iid \in FreshImageIds(Cat) :
                 /\ storeFiles' = storeFiles \cup {iid}
                 /\ images' = ImageServiceCreateImage(Cat, iid, GetStr(d, "pid"),
                        GetStr(d, "description"),
                        IF Has(d, "character_ids") THEN d.character_ids
                        ELSE {}).cat.images
                 /\ applied' = Applied(f.serial)
                 /\ Goto(LoopSlot, [f EXCEPT !.pc = "unlink"], f.serial)
                 /\ UNCHANGED <<groups, characters, loopOwner, approvals, withdrawn, restartVars, durableVars>>
       ELSE IF r.err # ""
       THEN /\ ReviewReturn(f, "500")
            /\ UNCHANGED <<groups, characters, images, storeFiles, applied>>
       ELSE IF ~r.ok
       THEN /\ ReviewReturn(f, "404")
            /\ UNCHANGED <<groups, characters, images, storeFiles, applied>>
       ELSE /\ groups' = r.cat.groups
            /\ characters' = r.cat.characters
            /\ images' = r.cat.images
            /\ applied' = Applied(f.serial)
            /\ Goto(LoopSlot,
                    IF nick = NoNick THEN [f EXCEPT !.pc = "stamp"]
                    ELSE [f EXCEPT !.pc = "nick", !.row = nick], f.serial)
            /\ UNCHANGED <<storeFiles, loopOwner, approvals, withdrawn, restartVars, durableVars>>
    /\ UNCHANGED <<users, sessions, guestLimits, requests, pendingFiles,
                   tempFiles, now, budget, created>>

\* The second commit of create_character / update_character in an approval.
ReviewNick ==
    LET f == calls[LoopSlot] IN
    /\ f.op = "approve" /\ f.pc = "nick"
    /\ characters' = CharacterServiceSetNicknames(Cat, f.row.character_id,
                         f.row.nicknames).characters
    /\ Goto(LoopSlot, [f EXCEPT !.pc = "stamp"], f.serial)
    /\ UNCHANGED <<users, sessions, guestLimits, requests, groups, images,
                   pendingFiles, tempFiles, storeFiles, now, budget, loopOwner, created,
                   applied, approvals, withdrawn, restartVars, durableVars>>

\* os.unlink of the quarantined file after create_image.
ReviewUnlink ==
    LET f == calls[LoopSlot] IN
    /\ f.op = "approve" /\ f.pc = "unlink"
    /\ pendingFiles' = pendingFiles \ {f.row.temp_file_path}
    /\ Goto(LoopSlot, [f EXCEPT !.pc = "stamp"], f.serial)
    /\ UNCHANGED <<users, sessions, guestLimits, requests, groups, characters,
                   images, tempFiles, storeFiles, now, budget, loopOwner, created,
                   applied, approvals, withdrawn, restartVars, durableVars>>

\* The decision as the last commit writes it: the status, the review time
\* and the reviewer.  The reason of a rejection is not written.
DecideApproved(row, op, by) ==
    [row EXCEPT !.status = APPROVED, !.reviewed_at = now, !.reviewed_by = by]
\* The last commit leaving the reviewer unset.
DecideNoReviewer(row, op, by) ==
    [row EXCEPT !.status = IF op = "approve" THEN APPROVED ELSE REJECTED,
                !.reviewed_at = now]
Decide(row, op, by) ==
    [row EXCEPT !.status = IF op = "approve" THEN APPROVED ELSE REJECTED,
                !.reviewed_at = now,
                !.reviewed_by = by]

\* The last commit of handle_pending_request.
ReviewStamp ==
    LET f == calls[LoopSlot] IN
    /\ f.op \in ReviewActions /\ f.pc = "stamp"
    /\ IF f.rid \notin DOMAIN requests
       THEN /\ ReviewReturn(f, "500") /\ UNCHANGED requests
       ELSE /\ requests' = [requests EXCEPT
                               ![f.rid] = Decide(@, f.op, f.id.user_id)]
            /\ ReviewReturn(f, "ok")
    /\ UNCHANGED <<users, sessions, guestLimits, groups, characters, images,
                   pendingFiles, tempFiles, storeFiles, now, budget, created, applied>>

\* ------------------------------------------- cancel_my_request (auth.py)
\* The guard on the status that cancel_my_request makes.
CannotCancelNever(row) == FALSE
\* cancel_my_request refusing only a rejected request.
CannotCancelRejected(row) == row.status = REJECTED
CannotCancel(row) == row.status # PENDING

\* The row cancel_my_request looks for: by id and by the caller's user id.
OwnRowOfAnyone(rid, user_id) == rid \in DOMAIN requests
OwnRow(rid, user_id) ==
    rid \in DOMAIN requests /\ requests[rid].user_id = user_id

\* Up to the delete: the session, the caller's own row, its status; the
\* quarantined file of an image-add is removed.
CancelBegin(cookie, rid) ==
    LET s == GetCurrentSession(cookie)
        mine == OwnRow(rid, s.user_id)
        row == requests[rid]
        kind == Identify(cookie).kind
    IN
    /\ calls[LoopSlot] = Idle /\ ~loopOwner
    /\ sessions' = SessionsAfterCurrent(cookie)
    /\ IF cookie = NoCookie
       THEN Return(LoopSlot, "cancel", kind, "401", 0) /\ UNCHANGED pendingFiles
       ELSE IF ~s.found \/ s.is_guest
       THEN Return(LoopSlot, "cancel", kind, "403", 0) /\ UNCHANGED pendingFiles
       ELSE IF ~mine
       THEN Return(LoopSlot, "cancel", kind, "404", 0) /\ UNCHANGED pendingFiles
       ELSE IF CannotCancel(row)
       THEN /\ Return(LoopSlot, "cancel", kind, "400:already_processed",
                      row.serial)
            /\ UNCHANGED pendingFiles
       ELSE /\ pendingFiles' = IF row.request_type = "add"
                               THEN pendingFiles \ {row.temp_file_path}
                               ELSE pendingFiles
            /\ Goto(LoopSlot, [op |-> "cancel", pc |-> "delete",
                               id |-> [kind |-> kind, user_id |-> s.user_id],
                               rid |-> rid, serial |-> row.serial], row.serial)
            /\ loopOwner' = TRUE
    /\ UNCHANGED <<users, guestLimits, requests, groups, characters, images,
                   tempFiles, storeFiles, now, budget, created, applied, approvals, withdrawn, restartVars, durableVars>>

\* db.delete(pending_req); db.commit()
CancelDelete ==
    LET f == calls[LoopSlot] IN
    /\ f.op = "cancel" /\ f.pc = "delete"
    /\ requests' = [r \in DOMAIN requests \ {f.rid} |-> requests[r]]
    /\ withdrawn' = withdrawn \cup {f.rid}
    /\ Return(LoopSlot, "cancel", f.id.kind, "cancelled", f.serial)
    /\ UNCHANGED <<users, sessions, guestLimits, groups, characters, images,
                   pendingFiles, tempFiles, storeFiles, now, budget, created, applied,
                   approvals, restartVars, durableVars>>

\* ------------------------------------------- the database file (database.py)
\* The content of picmanager.db: its tables.
Tables(u, ss, gl, rq, gr, ch, im) ==
    [there |-> TRUE, users |-> u, sessions |-> ss, guestLimits |-> gl,
     requests |-> rq, groups |-> gr, characters |-> ch, images |-> im]

Live ==
    IF liveFile
    THEN Tables(users, sessions, guestLimits, requests, groups, characters, images)
    ELSE NoFile

\* create_tables where no file is: the tables, empty.
EmptyTables == Tables(<<>>, <<>>, {}, <<>>, {}, {}, {})

\* file_hash: the SHA-256 digest of a file's content.
file_hash(f) == <<"sha256", f>>

\* restore_snapshot_if_needed: the live file it leaves.
restore_snapshot_always(live, snap) == snap
restore_snapshot_if_needed(live, snap) ==
    IF ~snap.there THEN live
    ELSE IF ~live.there THEN snap
    ELSE IF file_hash(live) # file_hash(snap) THEN snap
    ELSE live

\* init_database: restore_snapshot_if_needed, then create_tables.
init_database(live, snap) ==
    LET f == restore_snapshot_if_needed(live, snap) IN
    IF f.there THEN f ELSE EmptyTables

\* The tables as a database file holds them.
LoadTables(db) ==
    /\ liveFile' = db.there
    /\ IF db.there
       THEN /\ users' = db.users
            /\ sessions' = db.sessions
            /\ guestLimits' = db.guestLimits
            /\ requests' = db.requests
            /\ groups' = db.groups
            /\ characters' = db.characters
            /\ images' = db.images
       ELSE UNCHANGED <<users, sessions, guestLimits, requests, groups,
                        characters, images>>

\* shutil.copy2: the content the destination gets.
copy2_schema(src) == EmptyTables
copy2(src) == src

\* create_db_snapshot: by register_db_commit at every 50th commit of
\* get_db_context, requests that change nothing included, and by the
\* scheduler at midnight.
create_db_snapshot ==
    /\ liveFile
    /\ snapshot' = copy2(Live)
    /\ snapshot' # snapshot
    /\ last' = [Running EXCEPT !.op = "snapshot"]
    /\ UNCHANGED <<users, sessions, guestLimits, requests, groups, characters,
                   images, pendingFiles, tempFiles, storeFiles, now, calls,
                   loopOwner, budget, created, applied, approvals, withdrawn,
                   liveFile, issued, durableVars>>

\* ------------------------------------- login, guest_login, logout, /me
\* The uuid4 values create_session draws, in the order it draws them.
SessionIds == <<"s1", "s2", "s3", "s4">>

\* cleanup_expired_sessions: the table after its commit.
cleanup_expired_sessions ==
    [t \in {x \in DOMAIN sessions : ~(sessions[x].expires_at <= now)}
       |-> sessions[t]]

\* create_session: the table ss with the new row.
create_session(ss, token, user_id, guest_ip, timeout) ==
    [t \in DOMAIN ss \cup {token} |->
        IF t = token
        THEN [user_id |-> user_id, guest_ip |-> guest_ip,
              is_guest |-> user_id = NoId, created_at |-> now,
              last_activity |-> now, expires_at |-> now + timeout]
        ELSE ss[t]]

\* What a handler of the sessions answered: the cookie it was called with
\* and, for a lookup that gave None, why.
SessionAnswer(op, cookie, result, why) ==
    [op |-> op, kind |-> "none", result |-> result, serial |-> 0,
     token |-> cookie, why |-> why]

\* login of a user that exists, up to `await fetch_qq_info`: the expired
\* sessions are deleted.
LoginBegin(uid) ==
    /\ calls[LoopSlot] = Idle /\ ~loopOwner
    /\ issued < MaxLogins
    /\ uid \in DOMAIN users
    /\ sessions' = cleanup_expired_sessions
    /\ Goto(LoopSlot, [op |-> "login", pc |-> "create", uid |-> uid], 0)
    /\ UNCHANGED <<users, guestLimits, requests, groups, characters, images,
                   pendingFiles, tempFiles, storeFiles, now, loopOwner, budget,
                   created, applied, approvals, withdrawn, restartVars, durableVars>>

\* login, after the await: create_session.
LoginCreate ==
    LET f == calls[LoopSlot]
        token == SessionIds[issued + 1]
    IN
    /\ f.op = "login" /\ f.pc = "create"
    /\ sessions' = create_session(sessions, token, f.uid, NoStr,
                                  USER_SESSION_TIMEOUT)
    /\ issued' = issued + 1
    /\ calls' = [calls EXCEPT ![LoopSlot] = Idle]
    /\ last' = SessionAnswer("login", token, "ok", "")
    /\ UNCHANGED <<users, guestLimits, requests, groups, characters, images,
                   pendingFiles, tempFiles, storeFiles, now, loopOwner, budget,
                   created, applied, approvals, withdrawn, snapshot, liveFile, durableVars>>

\* guest_login
GuestLogin(ip) ==
    LET token == SessionIds[issued + 1] IN
    /\ calls[LoopSlot] = Idle /\ ~loopOwner
    /\ issued < MaxLogins
    /\ sessions' = create_session(cleanup_expired_sessions, token, NoId, ip,
                                  GUEST_SESSION_TIMEOUT)
    /\ issued' = issued + 1
    /\ last' = SessionAnswer("guest_login", token, "ok", "")
    /\ UNCHANGED <<users, guestLimits, requests, groups, characters, images,
                   pendingFiles, tempFiles, storeFiles, now, calls, loopOwner,
                   budget, created, applied, approvals, withdrawn, snapshot,
                   liveFile, durableVars>>

\* get_current_user (/me): get_session of the cookie.
MeBody(cookie) ==
    LET s == GetCurrentSession(cookie) IN
    /\ calls[LoopSlot] = Idle /\ ~loopOwner
    /\ sessions' = SessionsAfterCurrent(cookie)
    /\ last' = IF s.found THEN SessionAnswer("me", cookie, "found", "")
               ELSE SessionAnswer("me", cookie, "none",
                        IF cookie \in DOMAIN sessions THEN "expired"
                        ELSE "unknown")
    /\ UNCHANGED <<users, guestLimits, requests, groups, characters, images,
                   pendingFiles, tempFiles, storeFiles, now, loopOwner,
                   created, applied, approvals, withdrawn, restartVars>>

\* /me where the commit count is not followed: the snapshot it leads to is
\* create_db_snapshot at any moment.
Me(cookie) ==
    /\ MeBody(cookie)
    /\ UNCHANGED <<calls, budget, durableVars>>

\* delete_session: the table after it; a token that has no row deletes
\* nothing and commits nothing.
delete_session_all(ss, token) ==
    IF token \in DOMAIN ss THEN [t \in {} |-> ss[t]] ELSE ss
delete_session(ss, token) ==
    IF token \in DOMAIN ss
    THEN [t \in DOMAIN ss \ {token} |-> ss[t]]
    ELSE ss

\* logout of a request that carries a cookie: delete_session.
LogoutBody(cookie) ==
    /\ calls[LoopSlot] = Idle /\ ~loopOwner
    /\ sessions' = delete_session(sessions, cookie)
    /\ last' = SessionAnswer("logout", cookie, "ok",
                             IF cookie \in DOMAIN sessions THEN "" ELSE "unknown")
    /\ UNCHANGED <<users, guestLimits, requests, groups, characters, images,
                   pendingFiles, tempFiles, storeFiles, now, loopOwner,
                   created, applied, approvals, withdrawn, restartVars>>

Logout(cookie) ==
    /\ LogoutBody(cookie)
    /\ UNCHANGED <<calls, budget, durableVars>>

\* datetime.utcnow() moves on by a day.
Tick ==
    /\ now < MaxNow
    /\ now' = now + 1
    /\ last' = Running
    /\ UNCHANGED <<users, sessions, guestLimits, requests, groups, characters,
                   images, pendingFiles, tempFiles, storeFiles, calls,
                   loopOwner, budget, created, applied, approvals, withdrawn,
                   restartVars, durableVars>>

\* ------------------------------------------------------------- the process
\* The process stops (a crash, a kill, a reload) and starts again: every
\* handler in flight is gone with what it had not committed; the tables and
\* the files are as the last commit and the last file call left them.
Crash ==
    /\ \E s \in Slots : calls[s] # Idle
    /\ calls' = [s \in Slots |-> Idle]
    /\ loopOwner' = FALSE
    /\ last' = Running
    /\ LoadTables(init_database(Live, snapshot))
    /\ UNCHANGED <<pendingFiles, tempFiles, storeFiles, now, budget, created,
                   applied, approvals, withdrawn, snapshot, issued, durableVars>>

\* The process is stopped and started: init_database runs again.
Restart ==
    /\ calls' = [s \in Slots |-> Idle]
    /\ loopOwner' = FALSE
    /\ last' = [Running EXCEPT
                  !.op = "restart",
                  !.result = IF init_database(Live, snapshot) = Live
                             THEN "same" ELSE "replaced"]
    /\ LoadTables(init_database(Live, snapshot))
    /\ UNCHANGED <<pendingFiles, tempFiles, storeFiles, now, budget, created,
                   applied, approvals, withdrawn, snapshot, issued, durableVars>>

\* restore_snapshot_if_needed alone, as init_database calls it first.
RestoreStep ==
    LET f == restore_snapshot_if_needed(Live, snapshot) IN
    /\ LoadTables(f)
    /\ last' = [Running EXCEPT !.op = "restore",
                               !.result = IF f = Live THEN "same"
                                          ELSE IF liveFile THEN "replaced"
                                          ELSE "copied"]
    /\ UNCHANGED <<pendingFiles, tempFiles, storeFiles, now, calls, loopOwner,
                   budget, created, applied, approvals, withdrawn, snapshot,
                   issued, durableVars>>

\* ------------------------------------------------------------------- Init
\* start_daily_snapshot_scheduler has run: the flag is set and one worker
\* sleeps until midnight; and a process that has not run it.
OneWorker == [started |-> TRUE, workers |-> <<"sleep">>]
NoWorkers == [started |-> FALSE, workers |-> <<>>]

\* Nothing was committed, registered or copied yet.
NoAudit ==
    [calls |-> 0, triggered |-> 0, writes |-> 0, unsaved |-> 0,
     registered |-> 0, committed |-> {}, daily |-> 0, steps |-> <<>>]

\* A running installation: root, one more administrator and one user are
\* logged in, a guest has a session, and the catalog holds one group with
\* one character and one image of it; one file waits in resource/temp.
SessionRow(user_id, ip, ttl) ==
    [user_id |-> user_id, guest_ip |-> ip, is_guest |-> user_id = NoId,
     created_at |-> 0, last_activity |-> 0, expires_at |-> ttl]

InitSessions ==
    ("tA" :> SessionRow(1, NoStr, USER_SESSION_TIMEOUT))
        @@ ("tB" :> SessionRow(2, NoStr, USER_SESSION_TIMEOUT))
        @@ ("tU" :> SessionRow(3, NoStr, USER_SESSION_TIMEOUT))
        @@ ("tG" :> SessionRow(NoId, "ip1", GUEST_SESSION_TIMEOUT))

InitBase ==
    /\ users = (1 :> ROOT) @@ (2 :> ADMIN) @@ (3 :> USER)
    /\ sessions = InitSessions
    /\ guestLimits = {}
    /\ requests = <<>>
    /\ groups = {[id |-> 1, name |-> "n1", description |-> NoStr]}
    /\ characters = {[id |-> 1, name |-> "n1", group_id |-> 1,
                      description |-> NoStr, nicknames |-> <<>>]}
    /\ images = {[image_id |-> 1, pid |-> "p1", description |-> NoStr,
                  characters |-> {1}]}
    /\ pendingFiles = {}
    /\ tempFiles = {"t1"}
    /\ storeFiles = {1}
    /\ now = 0
    /\ calls = [s \in Slots |-> Idle]
    /\ loopOwner = FALSE
    /\ created = 0
    /\ last = Running
    /\ snapshot = NoFile
    /\ liveFile = TRUE
    /\ issued = 0
    /\ phase = "serving"
    /\ commit_counter = 0
    /\ snapshot_lock = FALSE
    /\ scheduler = OneWorker
    /\ audit = NoAudit

Init ==
    /\ InitBase
    /\ budget = MaxRequests
    /\ applied = [n \in 1..MaxRequests |-> 0]
    /\ approvals = [n \in 1..MaxRequests |-> [tried |-> 0, ok |-> 0]]
    /\ withdrawn = {}

\* A thread-pool handler takes the first free worker.
FirstFree(s, n) ==
    s \in ThreadSlots /\ s <= n /\ \A t \in ThreadSlots : t < s => calls[t] # Idle

\* The review under crashes.  A regular user asks for changes of the group,
\* the character and the image that exist, and uploads an image; an
\* administrator deletes the group (and with it the character) and the image
\* directly, so that the targets of the requests can be gone at approval.
ReviewSubmissions ==
    {<<"update_group", "tU", [group_id |-> 1, upd |-> [name |-> "n2"]]>>,
     <<"update_character", "tU",
       [character_id |-> 1, upd |-> [nicknames |-> <<"a", "a">>]]>>,
     <<"update_image", "tU", [image_id |-> 1, upd |-> [description |-> "d"]]>>,
     <<"delete_group", "tA", [group_id |-> 1]>>,
     <<"delete_image", "tA", [image_id |-> 1]>>}

ReviewUploads ==
    {<<"tU", [character_ids |-> {1}, group_id |-> 1, pid |-> "p2",
              description |-> NoStr, filename |-> "f.png", ext_ok |-> TRUE]>>}

Admins == {"tA", "tB"}
RequestIdRange == 1..MaxRequests

Submit ==
    \E s \in ThreadSlots, sub \in ReviewSubmissions :
        FirstFree(s, ReviewThreads) /\ SubmitBegin(s, sub[1], sub[2], sub[3])
Queue == \E s \in ThreadSlots : SubmitQueue(s)
Direct == \E s \in ThreadSlots : SubmitDirect(s)
Nick == \E s \in ThreadSlots : SubmitNick(s)
Upload == \E s \in UploadSlots, u \in ReviewUploads : UploadSingleBegin(s, u[1], u[2])
UploadResume == \E s \in UploadSlots : UploadSingleResume(s)
UploadCommit == \E s \in UploadSlots : UploadSingleCommit(s)
Review ==
    \E rid \in RequestIdRange, action \in ReviewActions :
        ReviewBegin("tA", rid, action)
Cancel == \E rid \in RequestIdRange : CancelBegin("tU", rid)

\* Withdrawals by the submitter, by an administrator, by a guest and by a
\* caller without a cookie.
CancelCallers == {"tU", "tA", "tG", NoCookie}
CancelAny ==
    \E rid \in RequestIdRange, cookie \in CancelCallers : CancelBegin(cookie, rid)

Next ==
    \/ Submit \/ Queue \/ Direct
    \/ Upload \/ UploadResume \/ UploadCommit
    \/ Review \/ ReviewMutate \/ ReviewNick \/ ReviewUnlink \/ ReviewStamp
    \/ Cancel \/ CancelDelete
    \/ Crash

Spec == Init /\ [][Next]_vars

\* Reviews and withdrawals by every kind of caller, the process never stopping.
NextCancel ==
    \/ Submit \/ Queue \/ Direct
    \/ Upload \/ UploadResume \/ UploadCommit
    \/ Review \/ ReviewMutate \/ ReviewNick \/ ReviewUnlink \/ ReviewStamp
    \/ CancelAny \/ CancelDelete

SpecCancel == Init /\ [][NextCancel]_vars

\* The sessions: users and guests log in and out, look themselves up with
\* cookies that are valid, expired or unknown; days pass, snapshots are
\* taken and the process is started again.
Cookies == {"tU", "tG", "s1", "s2", "zz"}
LoginAny == \E uid \in {3} : LoginBegin(uid)
GuestLoginAny == \E ip \in Ips : GuestLogin(ip)
Resolve == \E cookie \in Cookies : Me(cookie)
LogoutAny == \E cookie \in Cookies : Logout(cookie)

NextSession ==
    \/ Tick \/ LoginAny \/ LoginCreate \/ GuestLoginAny
    \/ Resolve \/ LogoutAny
    \/ create_db_snapshot \/ Restart

SpecSession == Init /\ [][NextSession]_vars

\* restore_snapshot_if_needed on its inputs: picmanager.db there or not,
\* the snapshot there or not, each with the sessions that some logouts have
\* left of the first ones.
SessionsLeft(S) == [t \in S |-> InitSessions[t]]

InitRestore ==
    /\ users = (1 :> ROOT) @@ (2 :> ADMIN) @@ (3 :> USER)
    /\ \E S \in SUBSET DOMAIN InitSessions : sessions = SessionsLeft(S)
    /\ guestLimits = {}
    /\ requests = <<>>
    /\ groups = {[id |-> 1, name |-> "n1", description |-> NoStr]}
    /\ characters = {}
    /\ images = {}
    /\ pendingFiles = {} /\ tempFiles = {} /\ storeFiles = {}
    /\ now = 0
    /\ calls = [s \in Slots |-> Idle]
    /\ loopOwner = FALSE
    /\ budget = 0 /\ created = 0
    /\ applied = [n \in 1..MaxRequests |-> 0]
    /\ approvals = [n \in 1..MaxRequests |-> [tried |-> 0, ok |-> 0]]
    /\ withdrawn = {}
    /\ last = Running
    /\ liveFile \in BOOLEAN
    /\ issued = 0
    /\ phase = "stopped"
    /\ commit_counter = 0
    /\ snapshot_lock = FALSE
    /\ scheduler = NoWorkers
    /\ audit = NoAudit
    /\ \E S \in SUBSET DOMAIN InitSessions :
          snapshot \in {NoFile,
                        Tables(users, SessionsLeft(S), guestLimits, requests,
                               groups, characters, images)}

NextRestore == RestoreStep \/ create_db_snapshot

SpecRestore == InitRestore /\ [][NextRestore]_vars

\* A regular user submits a request of each of the nine types, and an
\* administrator rejects.
RejectSubmissions ==
    {<<"create_group", "tU", [name |-> "n2", description |-> NoStr]>>,
     <<"update_group", "tU", [group_id |-> 1, upd |-> [name |-> "n2"]]>>,
     <<"delete_group", "tU", [group_id |-> 1]>>,
     <<"create_character", "tU",
       [name |-> "n2", group_id |-> 1, description |-> NoStr,
        nicknames |-> <<"a">>]>>,
     <<"update_character", "tU",
       [character_id |-> 1, upd |-> [nicknames |-> <<"a">>]]>>,
     <<"delete_character", "tU", [character_id |-> 1]>>,
     <<"update_image", "tU", [image_id |-> 1, upd |-> [description |-> "d"]]>>,
     <<"delete_image", "tU", [image_id |-> 1]>>}

SubmitEach ==
    \E s \in ThreadSlots, sub \in RejectSubmissions :
        FirstFree(s, ReviewThreads) /\ SubmitBegin(s, sub[1], sub[2], sub[3])
Reject == \E rid \in RequestIdRange : ReviewBegin("tA", rid, "reject")

NextReject ==
    \/ SubmitEach \/ Queue
    \/ Upload \/ UploadResume \/ UploadCommit
    \/ Reject \/ ReviewStamp

SpecReject == Init /\ [][NextReject]_vars

\* The approvals of additions, the process staying up.  A regular user asks
\* for a new group and a new character, twice if they like, for the deletion
\* of the character and of the image, and uploads an image; an administrator
\* creates the same group and the same character directly.
AddSubmissions ==
    {<<"create_group", "tU", [name |-> "n2", description |-> NoStr]>>,
     <<"create_character", "tU",
       [name |-> "n2", group_id |-> 1, description |-> NoStr,
        nicknames |-> <<"a", "a">>]>>,
     <<"create_group", "tA", [name |-> "n2", description |-> NoStr]>>,
     <<"create_character", "tA",
       [name |-> "n2", group_id |-> 1, description |-> NoStr,
        nicknames |-> <<"b">>]>>,
     <<"delete_character", "tU", [character_id |-> 1]>>,
     <<"delete_image", "tU", [image_id |-> 1]>>}

SubmitAdd ==
    \E s \in ThreadSlots, sub \in AddSubmissions :
        FirstFree(s, ReviewThreads) /\ SubmitBegin(s, sub[1], sub[2], sub[3])

\* Two administrators approve.
Approve ==
    \E cookie \in Admins, rid \in RequestIdRange : ReviewBegin(cookie, rid, "approve")

NextApprove ==
    \/ SubmitAdd \/ Queue \/ Direct \/ Nick
    \/ Upload \/ UploadResume \/ UploadCommit
    \/ Approve \/ ReviewMutate \/ ReviewNick \/ ReviewUnlink \/ ReviewStamp

SpecApprove == Init /\ [][NextApprove]_vars

\* The guest quota: the guest of one address submits from two threads.
InitQuota ==
    /\ InitBase
    /\ budget = QuotaRequests
    /\ applied = [n \in 1..QuotaRequests |-> 0]
    /\ approvals = [n \in 1..QuotaRequests |-> [tried |-> 0, ok |-> 0]]
    /\ withdrawn = {}

GuestSubmissions ==
    {<<"create_group", "tG", [name |-> "n2", description |-> NoStr]>>,
     <<"delete_image", "tG", [image_id |-> 1]>>}

SubmitGuest ==
    \E s \in ThreadSlots, sub \in GuestSubmissions :
        FirstFree(s, NumThreads) /\ SubmitBegin(s, sub[1], sub[2], sub[3])

NextQuota == SubmitGuest \/ Queue

SpecQuota == InitQuota /\ [][NextQuota]_vars

\* The submissions of every kind of caller: an administrator, a regular
\* user, a guest and a caller who sends no cookie.
Callers == {"tA", "tU", "tG", NoCookie}

AnySubmissions ==
    {<<"create_group", [name |-> "n2", description |-> NoStr]>>,
     <<"update_character", [character_id |-> 1, upd |-> [nicknames |-> <<"a">>]]>>,
     <<"delete_image", [image_id |-> 1]>>,
     <<"upload_temp_image",
       [filename |-> "t1", ext_ok |-> TRUE, character_ids |-> {1},
        pid |-> "p2", description |-> NoStr]>>}

SubmitAny ==
    \E s \in ThreadSlots, sub \in AnySubmissions, cookie \in Callers :
        FirstFree(s, ReviewThreads) /\ SubmitBegin(s, sub[1], cookie, sub[2])
UploadAny ==
    \E s \in UploadSlots, u \in ReviewUploads, cookie \in Callers :
        UploadSingleBegin(s, cookie, u[2])
UploadLedger == \E s \in UploadSlots : UploadSingleLedger(s)
TempCreate == \E s \in ThreadSlots : UploadTempCreate(s)
TempLedger == \E s \in ThreadSlots : UploadTempLedger(s)
TempUnlink == \E s \in ThreadSlots : UploadTempUnlink(s)

NextSubmit ==
    \/ SubmitAny \/ Queue \/ Direct \/ Nick
    \/ TempCreate \/ TempLedger \/ TempUnlink
    \/ UploadAny \/ UploadResume \/ UploadCommit \/ UploadLedger

SpecSubmit == Init /\ [][NextSubmit]_vars

\* ----------------------------------------------------------------- claims
Decided == {APPROVED, REJECTED}
Quiet == \A s \in Slots : calls[s] = Idle

\* The row that carries a serial, as a set: no row, or one.
RowOf(reqs, n) == {reqs[rid] : rid \in {x \in DOMAIN reqs : reqs[x].serial = n}}
Answer(op, result, n) ==
    [op |-> op, kind |-> "admin", result |-> result, serial |-> n]

\* C1: a review call, approve or reject, of a request that is approved or
\* rejected is answered with the conflict error and changes nothing: the
\* request rows (status, reviewer, review time), the catalog, the files and
\* the count of the mutations applied for the request stay as they were.
C1_ReviewOfDecidedChangesNothing ==
    [][\A cookie \in Admins, rid \in RequestIdRange, action \in ReviewActions :
          (/\ rid \in DOMAIN requests
           /\ requests[rid].status \in Decided
           /\ ReviewBegin(cookie, rid, action))
          => /\ last' = Answer(action, "400:already_processed",
                               requests[rid].serial)
             /\ calls'[LoopSlot] = Idle
             /\ requests' = requests
             /\ catalogVars' = catalogVars
             /\ fileVars' = fileVars
             /\ applied' = applied]_vars

\* An approved request whose mutation was applied once has been reviewed
\* again and the call was answered with the conflict.
C1_Witness ==
    /\ last.op \in ReviewActions
    /\ last.result = "400:already_processed"
    /\ \E r \in RowOf(requests, last.serial) :
          r.status = APPROVED /\ applied[r.serial] = 1

\* C2, as the claim states it: once two approve calls of a request have
\* come and gone, exactly one of them has succeeded and the mutation of the
\* request (for the types whose approval has one) has been applied exactly
\* once.
C2_ExactlyOneApprovalSucceeds ==
    \A n \in DOMAIN approvals :
        (approvals[n].tried = 2 /\ calls[LoopSlot] = Idle)
            => /\ approvals[n].ok = 1
               /\ \A r \in RowOf(requests, n) :
                     r.request_type \in MutatingTypes => applied[n] = 1

\* C2: of the approve calls of one request at most one succeeds, and its
\* mutation is applied at most once; when one has succeeded the request is
\* approved, its mutation (if its type has one) was applied exactly once, and
\* every further approve call gets the conflict and applies nothing; while
\* none has succeeded and none is running, nothing was applied and the
\* request is pending.
C2_AtMostOneApprovalSucceeds ==
    /\ [](\A n \in DOMAIN approvals :
            /\ approvals[n].ok <= 1
            /\ applied[n] <= 1
            /\ approvals[n].ok = 1 =>
                 \E r \in RowOf(requests, n) :
                    /\ r.status = APPROVED
                    /\ r.request_type \in MutatingTypes => applied[n] = 1
            /\ (approvals[n].ok = 0 /\ calls[LoopSlot] = Idle) =>
                 /\ applied[n] = 0
                 /\ \A r \in RowOf(requests, n) : r.status = PENDING)
    /\ [][\A cookie \in Admins, rid \in RequestIdRange :
            (/\ rid \in DOMAIN requests
             /\ approvals[requests[rid].serial].ok = 1
             /\ ReviewBegin(cookie, rid, "approve"))
            => /\ last' = Answer("approve", "400:already_processed",
                                 requests[rid].serial)
               /\ calls'[LoopSlot] = Idle
               /\ applied' = applied
               /\ catalogVars' = catalogVars]_vars

\* Two approve calls of a request have come and gone: one succeeded and
\* applied the mutation once, the other was answered with the conflict.
C2_Witness ==
    /\ last = Answer("approve", "400:already_processed", last.serial)
    /\ last.serial \in DOMAIN approvals
    /\ approvals[last.serial] = [tried |-> 2, ok |-> 1]
    /\ applied[last.serial] = 1
    /\ calls[LoopSlot] = Idle

\* C3, as the claim states it: whenever no handler is running (so also after
\* a crash between the steps of a review), the mutation of a request is
\* committed exactly if the request is approved.
C3_DecisionCommitsAsOneUnit ==
    Quiet =>
      \A rid \in DOMAIN requests :
         LET r == requests[rid] IN
         /\ applied[r.serial] > 0 => r.status = APPROVED
         /\ (r.status = APPROVED /\ r.request_type \in MutatingTypes)
               => applied[r.serial] > 0

\* C8: a request that is approved or rejected stays in the table with the
\* status it has, whatever step is taken; a status that changes was pending
\* and becomes approved or rejected.
C8_StatusOnlyLeavesPending ==
    [][\A n \in DOMAIN applied :
          \A r \in RowOf(requests, n) :
             /\ r.status \in Decided =>
                   \E q \in RowOf(requests', n) : q.status = r.status
             /\ \A q \in RowOf(requests', n) :
                   q.status # r.status =>
                      r.status = PENDING /\ q.status \in Decided]_vars

\* A request was approved or rejected, and its submitter then tried to
\* withdraw it: the row is still there and decided.
C8_Witness ==
    /\ last.op = "cancel" /\ last.result = "400:already_processed"
    /\ \E r \in RowOf(requests, last.serial) : r.status \in Decided

\* The name a group-add or a character-add asks for is taken as the tables
\* stand: by a group, or by a character of the target group.
NameTaken(row) ==
    LET d == LoadData(row.image_data) IN
    CASE row.request_type = "group_add" ->
            \E g \in groups : g.name = GetStr(d, "name")
      [] row.request_type = "character_add" ->
            \E c \in characters : /\ c.group_id = GetId(d, "group_id")
                                  /\ c.name = GetStr(d, "name")
      [] OTHER -> FALSE

\* C9: an approve call of a pending group-add or character-add whose name is
\* taken when the call looks is answered with the duplicate-name error,
\* creates no group and no character, and leaves the request as it was,
\* pending.
C9_TakenNameFailsApproval ==
    [][\A cookie \in Admins, rid \in RequestIdRange :
          (/\ rid \in DOMAIN requests
           /\ requests[rid].status = PENDING
           /\ NameTaken(requests[rid])
           /\ ReviewBegin(cookie, rid, "approve"))
          => /\ last' = Answer("approve", "400:duplicate", requests[rid].serial)
             /\ calls'[LoopSlot] = Idle
             /\ catalogVars' = catalogVars
             /\ requests' = requests
             /\ applied' = applied]_vars

\* Two character-add requests for the same group and name: the first was
\* approved, the approval of the second was answered with the duplicate-name
\* error and the second is pending.
C9_Witness ==
    /\ last = Answer("approve", "400:duplicate", last.serial)
    /\ \E r \in RowOf(requests, last.serial), q \in RowOf(requests, 3 - last.serial) :
          /\ r.request_type = "character_add" /\ r.status = PENDING
          /\ q.request_type = "character_add" /\ q.status = APPROVED
          /\ q.image_data = r.image_data
          /\ applied[q.serial] = 1 /\ applied[r.serial] = 0

\* The target of an edit or a delete request is not in its table; the
\* quarantined file of an image-add is not on the disk.
TargetGone(row) ==
    LET d == LoadData(row.image_data) IN
    CASE row.request_type = "edit" ->
            ~ \E i \in images : i.image_id = row.image_id
      [] row.request_type \in {"group_edit", "group_delete"} ->
            ~ \E g \in groups : g.id = GetId(d, "group_id")
      [] row.request_type \in {"character_edit", "character_delete"} ->
            ~ \E c \in characters : c.id = GetId(d, "character_id")
      [] OTHER -> FALSE
FileGone(row) ==
    row.request_type = "add" /\ row.temp_file_path \notin pendingFiles
Unstamped(n) ==
    \E r \in RowOf(requests, n) :
        r.status = PENDING /\ r.reviewed_by = NoId /\ r.reviewed_at = NoTime

\* C10: an approve call of an image-add whose quarantined file is missing is
\* answered with an error at once, and an approve call whose service finds
\* the target image, group or character gone is answered with not-found; in
\* both cases the step changes neither the request rows nor the catalog, and
\* the request is pending with no reviewer and no review time.
C10_FailedApprovalLeavesPending ==
    [][/\ \A cookie \in Admins, rid \in RequestIdRange :
            (/\ rid \in DOMAIN requests
             /\ requests[rid].status = PENDING
             /\ FileGone(requests[rid])
             /\ ReviewBegin(cookie, rid, "approve"))
            => /\ last' = Answer("approve", "400:no_temp_file",
                                 requests[rid].serial)
               /\ calls'[LoopSlot] = Idle
               /\ requests' = requests /\ Unstamped(requests[rid].serial)
               /\ catalogVars' = catalogVars /\ applied' = applied
       /\ (ReviewMutate /\ TargetGone(calls[LoopSlot].row))
            => /\ last' = Answer("approve", "404", calls[LoopSlot].serial)
               /\ calls'[LoopSlot] = Idle
               /\ requests' = requests /\ Unstamped(calls[LoopSlot].serial)
               /\ catalogVars' = catalogVars /\ applied' = applied]_vars

\* The approval of an image-add found its quarantined file missing, or the
\* approval of an edit found its target gone, and the request is pending
\* and unstamped.
C10_Witness ==
    /\ last.op = "approve" /\ last.serial # 0
    /\ last.result \in {"400:no_temp_file", "404"}
    /\ Unstamped(last.serial)

\* C4, as the claim states it: the requests a guest address was allowed
\* (each took one unit of the quota of the day) are at most five.
C4_AtMostFiveAllowed ==
    \A ip \in Ips :
        Cardinality({rid \in DOMAIN requests :
                        /\ requests[rid].guest_ip = ip
                        /\ requests[rid].consumed}) <= GUEST_DAILY_LIMIT

\* C5, as the claim states it: a step that changes the catalog tables or the
\* permanent store is a step of an administrator's call.
C5_OnlyAdministratorsChangeCatalog ==
    [][catalogVars' # catalogVars =>
          \E s \in Slots : /\ calls[s] # Idle
                           /\ calls'[s] # calls[s]
                           /\ calls[s].id.kind = "admin"]_vars

\* C6, as the claim states it: every request row that carries no user id was
\* queued by a submission that consumed one unit of the guest quota.
C6_NoUserMeansQuotaConsumed ==
    \A rid \in DOMAIN requests :
        requests[rid].user_id = NoId => requests[rid].consumed

\* C7, as the claim states it: every request row carries a user id or a
\* guest address, and never both.
C7_ExactlyOneOfUserAndGuest ==
    \A rid \in DOMAIN requests :
        (requests[rid].user_id # NoId) # (requests[rid].guest_ip # NoStr)

\* C11, as the claim states it: when the approval of an image-delete request
\* succeeds, the target Image row and its file in the store are gone.
C11_ApprovedDeleteRemovesImage ==
    [][(/\ ReviewStamp
        /\ calls[LoopSlot].op = "approve"
        /\ calls[LoopSlot].type = "delete"
        /\ last'.result = "ok")
       => /\ ~ \E i \in images' : i.image_id = calls[LoopSlot].row.image_id
          /\ calls[LoopSlot].row.image_id \notin storeFiles']_vars

\* C11: the approval of a pending image-delete request goes from its checks
\* straight to the last commit, and that commit marks the request approved
\* with its reviewer; neither step changes the Image rows, the store or any
\* other part of the catalog, and no mutation is counted for the request.
C11_ApprovedDeleteLeavesImage ==
    [][/\ \A cookie \in Admins, rid \in RequestIdRange :
            (/\ rid \in DOMAIN requests
             /\ requests[rid].status = PENDING
             /\ requests[rid].request_type = "delete"
             /\ ReviewBegin(cookie, rid, "approve"))
            => /\ calls'[LoopSlot].pc = "stamp"
               /\ catalogVars' = catalogVars /\ applied' = applied
       /\ (/\ ReviewStamp
           /\ calls[LoopSlot].op = "approve"
           /\ calls[LoopSlot].type = "delete")
            => /\ last' = Answer("approve", "ok", calls[LoopSlot].serial)
               /\ \E r \in RowOf(requests', calls[LoopSlot].serial) :
                     /\ r.status = APPROVED
                     /\ r.reviewed_by = calls[LoopSlot].id.user_id
               /\ catalogVars' = catalogVars /\ applied' = applied]_vars

\* An image-delete request was approved and its target image is still in
\* the table and in the store.
C11_Witness ==
    /\ last = Answer("approve", "ok", last.serial)
    /\ \E r \in RowOf(requests, last.serial) :
          /\ r.request_type = "delete" /\ r.status = APPROVED
          /\ \E i \in images : i.image_id = r.image_id
          /\ r.image_id \in storeFiles

\* The update a submitter proposed, read back from the request's data: the
\* fields whose stored value is not None.
Proposed(d) ==
    [k \in {k \in DOMAIN d :
              IF k = "character_ids" THEN d[k] # NoIds ELSE d[k] # NoStr}
       |-> d[k]]

\* C12, as the claim states it: the approval of an image-edit request leaves
\* the Image table as an administrator's direct update with the proposed
\* fields leaves it, so a field that was not proposed keeps its value.
C12_ApprovedEditEqualsDirectUpdate ==
    [][(/\ ReviewMutate
        /\ calls[LoopSlot].type = "edit"
        /\ applied' # applied)
       => images' = ImageServiceUpdateImage(Cat, calls[LoopSlot].row.image_id,
                        Proposed(LoadData(calls[LoopSlot].row.image_data))
                    ).cat.images]_vars

\* The request type that stands for a handler's mutation.
TypeOfOp(op) ==
    CASE op = "create_group" -> "group_add"
      [] op = "update_group" -> "group_edit"
      [] op = "delete_group" -> "group_delete"
      [] op = "create_character" -> "character_add"
      [] op = "update_character" -> "character_edit"
      [] op = "delete_character" -> "character_delete"
      [] op = "update_image" -> "edit"
      [] op = "delete_image" -> "delete"
      [] OTHER -> "add"

\* C13, as the claim states it: when an administrator's submission ends with
\* its mutation applied, no request row of that administrator is pending and
\* a request row of the mutation's type is there, approved, submitted and
\* reviewed by that administrator.
C13_AdminMutationLeavesApprovedRow ==
    [][\A s \in Slots :
          (/\ calls[s] # Idle /\ calls'[s] = Idle
           /\ calls[s].op \in SubmitKinds
           /\ calls[s].id.kind = "admin"
           /\ last'.result = "applied")
          => /\ \A rid \in DOMAIN requests' :
                   requests'[rid].user_id = calls[s].id.user_id
                   => requests'[rid].status # PENDING
             /\ \E rid \in DOMAIN requests' :
                   /\ requests'[rid].request_type = TypeOfOp(calls[s].op)
                   /\ requests'[rid].status = APPROVED
                   /\ requests'[rid].user_id = calls[s].id.user_id
                   /\ requests'[rid].reviewed_by = calls[s].id.user_id]_vars

\* A request that was queued and whose row is no longer in the table.
Cancelled(n) == n \in 1..created /\ RowOf(requests, n) = {}

\* C14, as the claim states it: the last step of a withdrawal deletes the row
\* and, for an image-add, its quarantined file is gone; from then on every
\* review of the request's id answers not-found, and no effect of the
\* withdrawn request is applied.
C14_WithdrawnIdIsNeverReviewed ==
    [][/\ (CancelDelete /\ calls[LoopSlot].rid \in DOMAIN requests)
            => /\ calls[LoopSlot].rid \notin DOMAIN requests'
               /\ LET row == requests[calls[LoopSlot].rid] IN
                  row.request_type = "add"
                      => row.temp_file_path \notin pendingFiles'
       /\ \A rid \in withdrawn, action \in ReviewActions :
            ReviewBegin("tA", rid, action)
                => last' = Answer(action, "404", 0)
       /\ \A n \in 1..MaxRequests :
            Cancelled(n) => applied'[n] = applied[n]]_vars

\* The user a cookie stands for in cancel_my_request, NoId for a guest, an
\* unknown cookie or none.
CallerOf(cookie) ==
    IF cookie \in DOMAIN sessions /\ ~sessions[cookie].is_guest
    THEN sessions[cookie].user_id ELSE NoId

\* C15: a withdrawal of a request that is approved or rejected, or whose
\* user is not the caller, ends at once with an error and changes neither
\* the requests, nor the files, nor the catalog; no step deletes or changes
\* a row that is approved or rejected.
C15_FailedWithdrawalChangesNothing ==
    [][/\ \A cookie \in CancelCallers, rid \in RequestIdRange :
            (/\ rid \in DOMAIN requests
             /\ \/ requests[rid].status # PENDING
                \/ requests[rid].user_id # CallerOf(cookie)
             /\ CancelBegin(cookie, rid))
            => /\ last'.op = "cancel"
               /\ last'.result \in {"400:already_processed", "401", "403", "404"}
               /\ requests[rid].user_id = CallerOf(cookie)
                    => last'.result = "400:already_processed"
               /\ calls'[LoopSlot] = Idle
               /\ requests' = requests
               /\ fileVars' = fileVars /\ catalogVars' = catalogVars
               /\ withdrawn' = withdrawn
       /\ \A rid \in DOMAIN requests :
            requests[rid].status # PENDING
                => rid \in DOMAIN requests' /\ requests'[rid] = requests[rid]]_vars

\* The submitter's withdrawal of a reviewed request was refused and the row is
\* there; the other request, pending, is there too although an administrator
\* or a guest may have tried to withdraw it.
C15_Witness ==
    /\ last.op = "cancel" /\ last.result = "400:already_processed"
    /\ \E r \in RowOf(requests, last.serial) : r.status \in {APPROVED, REJECTED}

\* C16: the rejection of a pending request of any type removes the
\* quarantined file of an image-add and nothing else before its commit; the
\* commit marks the row rejected with the reviewer and the review time and
\* answers ok; neither step changes a group, a character, an image or the
\* store, and no mutation is counted for the request.
C16_RejectionLeavesCatalog ==
    [][/\ \A rid \in RequestIdRange :
            (/\ rid \in DOMAIN requests
             /\ requests[rid].status = PENDING
             /\ ReviewBegin("tA", rid, "reject"))
            => /\ calls'[LoopSlot].pc = "stamp"
               /\ pendingFiles' =
                    IF requests[rid].request_type = "add"
                    THEN pendingFiles \ {requests[rid].temp_file_path}
                    ELSE pendingFiles
               /\ requests' = requests
               /\ tempFiles' = tempFiles
               /\ catalogVars' = catalogVars /\ applied' = applied
       /\ (ReviewStamp /\ calls[LoopSlot].op = "reject"
                       /\ calls[LoopSlot].rid \in DOMAIN requests)
            => LET f == calls[LoopSlot] IN
               /\ last' = Answer("reject", "ok", f.serial)
               /\ requests'[f.rid] =
                    [requests[f.rid] EXCEPT !.status = REJECTED,
                                            !.reviewed_by = f.id.user_id,
                                            !.reviewed_at = now]
               /\ f.id.user_id # NoId
               /\ fileVars' = fileVars
               /\ catalogVars' = catalogVars /\ applied' = applied]_vars

\* An image-add request was rejected: its row says so, its quarantined file
\* is gone and no image was created.
C16_Witness ==
    /\ last = Answer("reject", "ok", last.serial)
    /\ \E r \in RowOf(requests, last.serial) :
          /\ r.request_type = "add" /\ r.status = REJECTED
          /\ r.reviewed_by # NoId /\ r.reviewed_at # NoTime
          /\ r.temp_file_path \notin pendingFiles
    /\ Cardinality(images) = 1
    /\ applied = [n \in 1..MaxRequests |-> 0]

\* C17: a lookup of a session whose expiry is not after now gives None and
\* deletes the row; a lookup of an unknown session id gives None and changes
\* nothing; and after a lookup has found a session expired, no later lookup
\* of that session id finds a session, whatever happens in between.
C17_ExpiredSessionStaysGone ==
    /\ [][\A cookie \in Cookies :
            Me(cookie) =>
              /\ (cookie \in DOMAIN sessions /\ sessions[cookie].expires_at <= now)
                    => /\ last' = SessionAnswer("me", cookie, "none", "expired")
                       /\ cookie \notin DOMAIN sessions'
              /\ cookie \notin DOMAIN sessions
                    => /\ last' = SessionAnswer("me", cookie, "none", "unknown")
                       /\ sessions' = sessions]_vars
    /\ \A cookie \in Cookies :
          []((last = SessionAnswer("me", cookie, "none", "expired"))
                => [](last # SessionAnswer("me", cookie, "found", "")))

\* The guest's session was looked up exactly at its expiry, and is gone.
C17_Witness ==
    /\ last = SessionAnswer("me", "tG", "none", "expired")
    /\ now = GUEST_SESSION_TIMEOUT
    /\ "tG" \notin DOMAIN sessions

\* The lifetime create_session gave a session.
Ttl(row) == IF row.is_guest THEN GUEST_SESSION_TIMEOUT ELSE USER_SESSION_TIMEOUT

\* C18: a lookup that finds a session changes its last activity and nothing
\* else in the table; no step changes the expiry, the identity or the
\* creation time of a session that stays; and a session is found only before
\* its creation time plus its lifetime.
C18_LookupChangesOnlyLastActivity ==
    [][/\ \A cookie \in Cookies :
            (Me(cookie) /\ last'.result = "found")
            => /\ cookie \in DOMAIN sessions
               /\ sessions' = [sessions EXCEPT ![cookie].last_activity = now]
               /\ now < sessions[cookie].created_at + Ttl(sessions[cookie])
       /\ \A t \in DOMAIN sessions \cap DOMAIN sessions' :
            /\ sessions'[t].expires_at = sessions[t].expires_at
            /\ sessions'[t].created_at = sessions[t].created_at
            /\ sessions'[t].user_id = sessions[t].user_id
            /\ sessions'[t].guest_ip = sessions[t].guest_ip
            /\ sessions'[t].is_guest = sessions[t].is_guest
            /\ sessions'[t].expires_at <= sessions'[t].created_at + Ttl(sessions'[t])
       /\ \A t \in DOMAIN sessions' \ DOMAIN sessions :
            sessions'[t].expires_at <= sessions'[t].created_at + Ttl(sessions'[t])]_vars

\* The user's session was found a day after its creation: its last activity
\* is that day, its expiry and its creation time are the ones it got.
C18_Witness ==
    /\ last = SessionAnswer("me", "tU", "found", "")
    /\ now > 0
    /\ "tU" \in DOMAIN sessions
    /\ sessions["tU"].last_activity = now
    /\ sessions["tU"].created_at = 0
    /\ sessions["tU"].expires_at = USER_SESSION_TIMEOUT

\* C19, as the claim states it: a session that is in the table and not
\* expired when the process is started again is in the table, with the same
\* user, and not expired after init_database has run.
C19_RestartKeepsSessions ==
    [][Restart =>
          \A t \in DOMAIN sessions :
              sessions[t].expires_at > now
              => /\ t \in DOMAIN sessions'
                 /\ sessions'[t].expires_at > now
                 /\ sessions'[t].user_id = sessions[t].user_id]_vars

\* C20: restore_snapshot_if_needed leaves picmanager.db as it is when there
\* is no snapshot; makes it a copy of the snapshot when there is a snapshot
\* and no picmanager.db; replaces it by the snapshot when both are there and
\* their digests differ; leaves it as it is when the digests are equal; and
\* in each case leaves the snapshot as it is.
C20_RestoreDecidesByFourCases ==
    [][RestoreStep =>
          /\ ~snapshot.there => Live' = Live
          /\ (snapshot.there /\ ~liveFile) => Live' = snapshot
          /\ (snapshot.there /\ liveFile
                /\ file_hash(Live) # file_hash(snapshot)) => Live' = snapshot
          /\ (snapshot.there /\ liveFile
                /\ file_hash(Live) = file_hash(snapshot)) => Live' = Live
          /\ snapshot' = snapshot]_vars

\* picmanager.db was there with other sessions than the snapshot's, and is
\* now the snapshot's copy.
C20_Witness ==
    /\ last.op = "restore" /\ last.result = "replaced"
    /\ liveFile /\ snapshot.there
    /\ Live = snapshot
    /\ DOMAIN sessions = {"tU"}

SNAPSHOT_THRESHOLD == 50
MaxCommits == 3       \* get_db_context exits followed in one behaviour
ServedBefore == 48    \* get_db_context exits of the process before them

\* The database file on disk, in two parts that a copy reads and writes one
\* after the other: the tables of the accounts and the tables of the catalog.
\* A file of which not every part was written holds NoPage for the others.
NoPage == [none |-> TRUE]
Page1(f) ==
    [users |-> f.users, sessions |-> f.sessions,
     guestLimits |-> f.guestLimits, requests |-> f.requests]
Page2(f) ==
    [groups |-> f.groups, characters |-> f.characters, images |-> f.images]
Complete(f) == f.there /\ "page1" \notin DOMAIN f
Pages(f) == IF Complete(f) THEN <<Page1(f), Page2(f)>> ELSE <<f.page1, f.page2>>
File(p1, p2) ==
    IF p1 # NoPage /\ p2 # NoPage
    THEN Tables(p1.users, p1.sessions, p1.guestLimits, p1.requests,
                p2.groups, p2.characters, p2.images)
    ELSE [there |-> TRUE, page1 |-> p1, page2 |-> p2]

\* open(dst, 'wb') of shutil.copy2: the destination is there and empty.
Truncated == File(NoPage, NoPage)
\* A write of part i at its offset.
WritePage(f, i, p) ==
    File(IF i = 1 THEN p ELSE Pages(f)[1], IF i = 2 THEN p ELSE Pages(f)[2])

\* shutil.copy2(DATABASE_PATH, snapshot_path), one system call at a time:
\* where the copier is (copy, page1, page2), what the call leaves in the
\* snapshot and where the copier is next.
CopyPcs == {"copy", "page1", "page2"}
CopyWrite(pc) ==
    IF pc = "copy" THEN Truncated
    ELSE IF pc = "page1" THEN WritePage(snapshot, 1, Pages(Live)[1])
    ELSE WritePage(snapshot, 2, Pages(Live)[2])
CopyNext(pc) ==
    IF pc = "copy" THEN "page1" ELSE IF pc = "page1" THEN "page2" ELSE "done"

\* A write transaction was committed: picmanager.db holds the tables of
\* the next state.
Committed(a, n) ==
    IF n = 0 THEN a
    ELSE [a EXCEPT !.writes = @ + n, !.unsaved = @ + n,
                   !.committed = @ \cup {Live'}]

\* A copy has written its last part.
Landed(a) == [a EXCEPT !.unsaved = 0, !.registered = 0]

\* The frame of a handler that leaves `with get_db_context()` without an
\* exception: db.commit() is done and register_db_commit is called.
ContextExit(op) == [op |-> op, pc |-> "lock"]
RegisterPcs == {"lock", "load", "store", "check", "unlock"} \cup CopyPcs

\* get_groups, in the thread pool: a query, and the context is left.
GetGroups(s) ==
    /\ phase = "serving" /\ budget > 0
    /\ calls[s] = Idle
    /\ budget' = budget - 1
    /\ Goto(s, ContextExit("get_groups"), 0)
    /\ UNCHANGED <<users, sessions, guestLimits, requests, groups, characters,
                   images, pendingFiles, tempFiles, storeFiles, now, loopOwner,
                   created, applied, approvals, withdrawn, restartVars,
                   durableVars>>

\* /me: get_session commits what it changes; a session that is found leaves
\* the context, any other cookie is answered 401 from inside it (rollback,
\* and no register_db_commit).
MeCommit(cookie) ==
    /\ phase = "serving" /\ budget > 0
    /\ MeBody(cookie)
    /\ budget' = budget - 1
    /\ calls' = IF GetCurrentSession(cookie).found
                THEN [calls EXCEPT ![LoopSlot] = ContextExit("me")]
                ELSE calls
    /\ audit' = Committed(audit, IF cookie \in DOMAIN sessions THEN 1 ELSE 0)
    /\ UNCHANGED <<phase, commit_counter, snapshot_lock, scheduler>>

\* logout: delete_session commits if the row is there; the context is left.
LogoutCommit(cookie) ==
    /\ phase = "serving" /\ budget > 0
    /\ LogoutBody(cookie)
    /\ budget' = budget - 1
    /\ calls' = [calls EXCEPT ![LoopSlot] = ContextExit("logout")]
    /\ audit' = Committed(audit, IF cookie \in DOMAIN sessions THEN 1 ELSE 0)
    /\ UNCHANGED <<phase, commit_counter, snapshot_lock, scheduler>>

\* A step of register_db_commit changes the frame and nothing of the tables.
RegisterFrame(s, frame) ==
    /\ calls' = [calls EXCEPT ![s] = frame]
    /\ last' = Running
    /\ UNCHANGED <<users, sessions, guestLimits, requests, groups, characters,
                   images, pendingFiles, tempFiles, storeFiles, now, loopOwner,
                   budget, created, applied, approvals, withdrawn, liveFile,
                   issued, phase, scheduler>>

\* with _snapshot_lock: the lock can be taken.
LockIgnored == TRUE
LockFree == ~snapshot_lock

RegisterLock(s) ==
    /\ calls[s] # Idle /\ "pc" \in DOMAIN calls[s] /\ calls[s].pc = "lock"
    /\ LockFree
    /\ snapshot_lock' = TRUE
    /\ RegisterFrame(s, [calls[s] EXCEPT !.pc = "load"])
    /\ UNCHANGED <<commit_counter, snapshot, audit>>

\* _commit_counter += 1: the global is read ...
RegisterLoad(s) ==
    /\ calls[s] # Idle /\ "pc" \in DOMAIN calls[s] /\ calls[s].pc = "load"
    /\ RegisterFrame(s, [op |-> calls[s].op, pc |-> "store", n |-> commit_counter])
    /\ UNCHANGED <<commit_counter, snapshot_lock, snapshot, audit>>

\* ... and written.
RegisterStore(s) ==
    /\ calls[s] # Idle /\ "pc" \in DOMAIN calls[s] /\ calls[s].pc = "store"
    /\ commit_counter' = calls[s].n + 1
    /\ audit' = [audit EXCEPT !.calls = @ + 1, !.registered = @ + 1]
    /\ RegisterFrame(s, [op |-> calls[s].op, pc |-> "check"])
    /\ UNCHANGED <<snapshot_lock, snapshot>>

\* if _commit_counter >= 50: _commit_counter = 0; create_db_snapshot()
RegisterCheck(s) ==
    /\ calls[s] # Idle /\ "pc" \in DOMAIN calls[s] /\ calls[s].pc = "check"
    /\ IF commit_counter >= SNAPSHOT_THRESHOLD
       THEN /\ commit_counter' = 0
            /\ audit' = [audit EXCEPT !.triggered = @ + 1, !.writes = 0]
            /\ RegisterFrame(s, [calls[s] EXCEPT !.pc = "copy"])
       ELSE /\ RegisterFrame(s, [calls[s] EXCEPT !.pc = "unlock"])
            /\ UNCHANGED <<commit_counter, audit>>
    /\ UNCHANGED <<snapshot_lock, snapshot>>

\* create_db_snapshot under the lock, a system call of the copy at a time.
SnapshotStep(s) ==
    LET f == calls[s] IN
    /\ f # Idle /\ "pc" \in DOMAIN f /\ f.pc \in CopyPcs
    /\ IF f.pc = "copy" /\ ~liveFile
       THEN /\ RegisterFrame(s, [f EXCEPT !.pc = "unlock"])
            /\ UNCHANGED <<snapshot, audit>>
       ELSE /\ snapshot' = CopyWrite(f.pc)
            /\ RegisterFrame(s, [f EXCEPT !.pc = IF CopyNext(f.pc) = "done"
                                                 THEN "unlock" ELSE CopyNext(f.pc)])
            /\ audit' = IF CopyNext(f.pc) = "done" THEN Landed(audit) ELSE audit
    /\ UNCHANGED <<commit_counter, snapshot_lock>>

\* shutil.copy2 raises (the disk is full, the file cannot be opened):
\* `except Exception: pass`.
SnapshotFail(s) ==
    LET f == calls[s] IN
    /\ f # Idle /\ "pc" \in DOMAIN f /\ f.pc \in CopyPcs
    /\ liveFile
    /\ RegisterFrame(s, [f EXCEPT !.pc = "unlock"])
    /\ UNCHANGED <<commit_counter, snapshot_lock, snapshot, audit>>

\* The lock is released and the handler answers.
RegisterUnlock(s) ==
    /\ calls[s] # Idle /\ "pc" \in DOMAIN calls[s] /\ calls[s].pc = "unlock"
    /\ snapshot_lock' = FALSE
    /\ calls' = [calls EXCEPT ![s] = Idle]
    /\ last' = [Running EXCEPT !.op = calls[s].op, !.result = "ok"]
    /\ UNCHANGED <<users, sessions, guestLimits, requests, groups, characters,
                   images, pendingFiles, tempFiles, storeFiles, now, loopOwner,
                   budget, created, applied, approvals, withdrawn, restartVars,
                   phase, commit_counter, scheduler, audit>>

\* ------------------------------------------------ the scheduler's worker
\* start_daily_snapshot_scheduler: the worker threads after the call.
start_scheduler_always(sch) ==
    [started |-> TRUE, workers |-> Append(sch.workers, "sleep")]
start_daily_snapshot_scheduler(sch) ==
    IF sch.started THEN sch
    ELSE [started |-> TRUE, workers |-> Append(sch.workers, "sleep")]

\* A step of a worker changes the scheduler, the snapshot and the audit.
WorkerFrame(i, pc) ==
    /\ scheduler' = [scheduler EXCEPT !.workers[i] = pc]
    /\ UNCHANGED <<users, sessions, guestLimits, requests, groups, characters,
                   images, pendingFiles, tempFiles, storeFiles, now, calls,
                   loopOwner, budget, created, applied, approvals, withdrawn,
                   liveFile, issued, phase, commit_counter, snapshot_lock>>

\* Local midnight: time.sleep(_seconds_until_next_midnight()) of every
\* sleeping worker returns.  The copy of a day ends before the next one.
Midnight ==
    /\ phase = "serving"
    /\ now < MaxNow
    /\ \A i \in DOMAIN scheduler.workers : scheduler.workers[i] = "sleep"
    /\ now' = now + 1
    /\ scheduler' = [scheduler EXCEPT
                       !.workers = [i \in DOMAIN @ |-> "copy"]]
    /\ last' = [Running EXCEPT !.op = "midnight"]
    /\ UNCHANGED <<users, sessions, guestLimits, requests, groups, characters,
                   images, pendingFiles, tempFiles, storeFiles, calls,
                   loopOwner, budget, created, applied, approvals, withdrawn,
                   restartVars, phase, commit_counter, snapshot_lock, audit>>

\* create_db_snapshot of the worker, a system call of the copy at a time.
WorkerStep(i) ==
    LET pc == scheduler.workers[i] IN
    /\ pc \in CopyPcs
    /\ last' = [Running EXCEPT !.op = "worker"]
    /\ IF pc = "copy" /\ ~liveFile
       THEN /\ WorkerFrame(i, "sleep")
            /\ audit' = [audit EXCEPT !.daily = now]
            /\ UNCHANGED snapshot
       ELSE /\ snapshot' = CopyWrite(pc)
            /\ WorkerFrame(i, IF CopyNext(pc) = "done" THEN "sleep"
                              ELSE CopyNext(pc))
            /\ audit' = IF CopyNext(pc) = "done" THEN Landed(audit)
                        ELSE IF pc = "copy" THEN [audit EXCEPT !.daily = now]
                        ELSE audit

\* shutil.copy2 of the worker raises.
WorkerFail(i) ==
    LET pc == scheduler.workers[i] IN
    /\ pc \in CopyPcs
    /\ liveFile
    /\ last' = [Running EXCEPT !.op = "worker"]
    /\ WorkerFrame(i, "sleep")
    /\ audit' = [audit EXCEPT !.daily = now]
    /\ UNCHANGED snapshot

\* A further call of start_daily_snapshot_scheduler in the running process.
StartSchedulerAgain ==
    /\ phase = "serving"
    /\ last.op # "start_scheduler"
    /\ scheduler' = start_daily_snapshot_scheduler(scheduler)
    /\ last' = [Running EXCEPT !.op = "start_scheduler"]
    /\ UNCHANGED <<users, sessions, guestLimits, requests, groups, characters,
                   images, pendingFiles, tempFiles, storeFiles, now, calls,
                   loopOwner, budget, created, applied, approvals, withdrawn,
                   restartVars, phase, commit_counter, snapshot_lock, audit>>

\* ------------------------------------------------- the process, step by step
\* The process ends (a kill, a power cut): its threads, its lock and its
\* globals are gone; the files stay as the last system call left them.
Kill ==
    /\ phase = "serving"
    /\ phase' = "stopped"
    /\ calls' = [s \in Slots |-> Idle]
    /\ loopOwner' = FALSE
    /\ commit_counter' = 0
    /\ snapshot_lock' = FALSE
    /\ scheduler' = NoWorkers
    /\ audit' = [audit EXCEPT !.calls = 0, !.triggered = 0, !.writes = 0,
                              !.steps = <<>>]
    /\ last' = [Running EXCEPT !.op = "kill"]
    /\ UNCHANGED <<users, sessions, guestLimits, requests, groups, characters,
                   images, pendingFiles, tempFiles, storeFiles, now, budget,
                   created, applied, approvals, withdrawn, restartVars>>

\* While the process is stopped picmanager.db is replaced from outside: by
\* a database that holds the empty tables, or removed.
ExternalFiles == {EmptyTables, NoFile}
ExternalReplace ==
    /\ phase = "stopped"
    /\ last.op = "kill"
    /\ \E f \in ExternalFiles :
          /\ f # Live
          /\ LoadTables(f)
          /\ audit' = [audit EXCEPT
                         !.committed = IF f.there THEN @ \cup {f} ELSE @,
                         !.unsaved = 0,
                         !.steps = Append(@, "replace")]
    /\ last' = [Running EXCEPT !.op = "replace"]
    /\ UNCHANGED <<pendingFiles, tempFiles, storeFiles, now, calls, loopOwner,
                   budget, created, applied, approvals, withdrawn, snapshot,
                   issued, phase, commit_counter, snapshot_lock, scheduler>>

\* lifespan, init_database: restore_snapshot_if_needed.  Of what it has
\* put in the place of picmanager.db the process opens a database; a file
\* of no bytes, which SQLite takes for a database without tables; and not
\* a file that is no database: create_tables raises and the process ends.
StartRestore ==
    LET f == restore_snapshot_if_needed(Live, snapshot) IN
    /\ phase = "stopped"
    /\ IF Complete(f) \/ ~f.there
       THEN /\ LoadTables(f)
            /\ phase' = "restored"
       ELSE /\ LoadTables(EmptyTables)
            /\ phase' = IF f = Truncated THEN "restored" ELSE "failed"
    /\ audit' = [audit EXCEPT !.steps = Append(@, "restore"),
                              !.unsaved = IF f = Live THEN @ ELSE 0]
    /\ last' = [Running EXCEPT
                  !.op = "restore",
                  !.result = IF f = Live THEN "same"
                             ELSE IF Complete(f) THEN "replaced"
                             ELSE "broken"]
    /\ UNCHANGED <<pendingFiles, tempFiles, storeFiles, now, calls, loopOwner,
                   budget, created, applied, approvals, withdrawn, snapshot,
                   issued, commit_counter, snapshot_lock, scheduler>>

\* init_database: create_tables.
StartCreateTables ==
    /\ phase = "restored"
    /\ phase' = "created"
    /\ IF liveFile
       THEN UNCHANGED <<users, sessions, guestLimits, requests, groups,
                        characters, images, liveFile>>
       ELSE LoadTables(EmptyTables)
    /\ audit' = [audit EXCEPT !.steps = Append(@, "create_tables")]
    /\ last' = [Running EXCEPT !.op = "create_tables"]
    /\ UNCHANGED <<pendingFiles, tempFiles, storeFiles, now, calls, loopOwner,
                   budget, created, applied, approvals, withdrawn, snapshot,
                   issued, commit_counter, snapshot_lock, scheduler>>

\* init_database: apply_migrations finds every column and table there.
StartMigrate ==
    /\ phase = "created"
    /\ phase' = "migrated"
    /\ audit' = [audit EXCEPT !.steps = Append(@, "apply_migrations")]
    /\ last' = [Running EXCEPT !.op = "apply_migrations"]
    /\ UNCHANGED <<users, sessions, guestLimits, requests, groups, characters,
                   images, pendingFiles, tempFiles, storeFiles, now, calls,
                   loopOwner, budget, created, applied, approvals, withdrawn,
                   restartVars, commit_counter, snapshot_lock, scheduler>>

\* init_database: start_daily_snapshot_scheduler; lifespan yields and the
\* server takes requests.
StartScheduler ==
    /\ phase = "migrated"
    /\ phase' = "serving"
    /\ scheduler' = start_daily_snapshot_scheduler(scheduler)
    /\ audit' = [audit EXCEPT !.steps = Append(@, "start_scheduler")]
    /\ last' = [Running EXCEPT !.op = "serving"]
    /\ UNCHANGED <<users, sessions, guestLimits, requests, groups, characters,
                   images, pendingFiles, tempFiles, storeFiles, now, calls,
                   loopOwner, budget, created, applied, approvals, withdrawn,
                   restartVars, commit_counter, snapshot_lock>>

\* The requests of the commit counter: lists of groups from the thread
\* pool, /me and logout on the event loop, with cookies that are valid,
\* that expire and that are unknown.
CommitCookies == {"tU", "tG", "zz"}
ListGroups == \E s \in ThreadSlots : GetGroups(s)
MeAny == \E cookie \in CommitCookies : MeCommit(cookie)
LogoutSome == \E cookie \in {"tU", "zz"} : LogoutCommit(cookie)
Register ==
    \E s \in Slots :
        \/ RegisterLock(s) \/ RegisterLoad(s) \/ RegisterStore(s)
        \/ RegisterCheck(s) \/ RegisterUnlock(s)
SnapshotCopy == \E s \in Slots : SnapshotStep(s)
SnapshotRaise == \E s \in Slots : SnapshotFail(s)
Worker == \E i \in DOMAIN scheduler.workers : WorkerStep(i)
WorkerRaise == \E i \in DOMAIN scheduler.workers : WorkerFail(i)

\* A running installation that has answered no request yet, or ServedBefore
\* of them: each was a /me of the user, committed and registered.
InitCommit ==
    /\ users = (1 :> ROOT) @@ (2 :> ADMIN) @@ (3 :> USER)
    /\ sessions = InitSessions
    /\ guestLimits = {}
    /\ requests = <<>>
    /\ groups = {[id |-> 1, name |-> "n1", description |-> NoStr]}
    /\ characters = {}
    /\ images = {}
    /\ pendingFiles = {} /\ tempFiles = {} /\ storeFiles = {}
    /\ now = 0
    /\ calls = [s \in Slots |-> Idle]
    /\ loopOwner = FALSE
    /\ created = 0
    /\ last = Running
    /\ snapshot = NoFile
    /\ liveFile = TRUE
    /\ issued = 0
    /\ phase = "serving"
    /\ snapshot_lock = FALSE
    /\ scheduler = OneWorker
    /\ \E n \in {0, ServedBefore} :
          /\ commit_counter = n
          /\ audit = [NoAudit EXCEPT !.calls = n, !.writes = n,
                                     !.unsaved = n, !.registered = n,
                                     !.committed = {Live}]
    /\ budget = MaxCommits
    /\ applied = [n \in 1..MaxRequests |-> 0]
    /\ approvals = [n \in 1..MaxRequests |-> [tried |-> 0, ok |-> 0]]
    /\ withdrawn = {}

\* The callers of register_db_commit, the process never stopping and no
\* midnight passing.
NextCommit ==
    \/ ListGroups \/ MeAny \/ LogoutSome
    \/ Register \/ SnapshotCopy \/ SnapshotRaise

SpecCommit == InitCommit /\ [][NextCommit]_vars

\* The snapshot file over the days and the starts of the process: /me on
\* the event loop, the worker at midnight, the process killed and started.
NextSnapshot ==
    \/ MeAny
    \/ Register \/ SnapshotCopy \/ SnapshotRaise
    \/ Midnight \/ Worker \/ WorkerRaise
    \/ StartSchedulerAgain
    \/ Kill \/ ExternalReplace
    \/ StartRestore \/ StartCreateTables \/ StartMigrate \/ StartScheduler

SpecSnapshot == InitCommit /\ [][NextSnapshot]_vars

\* The worker is a thread of its own: it runs when it can.
SpecSnapshotFair == SpecSnapshot /\ WF_vars(Worker)

\* -------------------------------------------------------------- C22 .. C24
\* C22: whenever picmanager.db.snapshot is there it is a whole file, equal
\* byte for byte to picmanager.db as some commit had left it; a copy that
\* is under way, interrupted or failed leaves the snapshot before it.
C22_SnapshotIsCommittedState ==
    snapshot.there => Complete(snapshot) /\ snapshot \in audit.committed

NoCallInProgress == \A s \in Slots : calls[s] = Idle

\* C23: no increment of _commit_counter is lost, whatever the interleaving:
\* the calls that have counted are 50 for every snapshot triggered plus the
\* counter; with no call in progress the counter is within 0..49; and the
\* call that finds 50 sets the counter to zero as it triggers the snapshot.
C23_NoIncrementIsLost ==
    /\ audit.calls = SNAPSHOT_THRESHOLD * audit.triggered + commit_counter
    /\ commit_counter \in 0..SNAPSHOT_THRESHOLD
    /\ NoCallInProgress =>
          /\ commit_counter \in 0..(SNAPSHOT_THRESHOLD - 1)
          /\ audit.triggered = audit.calls \div SNAPSHOT_THRESHOLD
          /\ ~snapshot_lock
    /\ \A s \in Slots :
          calls[s] # Idle /\ calls[s].pc \in CopyPcs => commit_counter = 0

C23_Witness ==
    /\ NoCallInProgress
    /\ audit.calls = SNAPSHOT_THRESHOLD + 1
    /\ audit.triggered = 1
    /\ commit_counter = 1
    /\ Complete(snapshot)

\* C24: with no call in progress _commit_counter is the number of write
\* transactions committed since it was last set to zero.
C24_CounterCountsWriteTransactions ==
    NoCallInProgress => commit_counter = audit.writes

\* -------------------------------------------------------------- C25 .. C28
StartSteps == <<"restore", "create_tables", "apply_migrations", "start_scheduler">>

\* C25: when the process begins to serve, init_database has run
\* restore_snapshot_if_needed, then create_tables, apply_migrations and the
\* scheduler, in this order and no handler before them; and where
\* picmanager.db was replaced from outside while a snapshot was there,
\* picmanager.db then holds what the snapshot holds.
C25_RestoreBeforeServing ==
    [][/\ (\E s \in Slots : calls'[s] # Idle) => phase = "serving"
       /\ StartScheduler =>
             /\ audit.steps' \in {StartSteps, <<"replace">> \o StartSteps}
             /\ (Head(audit.steps) = "replace" /\ snapshot.there)
                   => Live' = snapshot']_vars

\* C26: after every midnight that passes while the process runs the worker
\* calls create_db_snapshot for that day, whatever the commit counter is;
\* no step of the worker changes _commit_counter; and however often
\* start_daily_snapshot_scheduler is called there is at most one worker.
C26_DailySnapshotByOneWorker ==
    /\ [](phase = "serving" /\ last.op = "midnight"
            => <>(audit.daily = now \/ phase # "serving"))
    /\ [][Midnight \/ Worker \/ WorkerRaise \/ StartSchedulerAgain
            => commit_counter' = commit_counter]_vars
    /\ [](Len(scheduler.workers) <= 1)

C26_Witness ==
    /\ phase = "serving"
    /\ now = 2 /\ audit.daily = 2
    /\ commit_counter = 0 /\ audit.calls = 0
    /\ last.op = "start_scheduler"
    /\ Len(scheduler.workers) = 1
    /\ Complete(snapshot)

\* C28: where a start of the process puts the snapshot in the place of
\* picmanager.db, the write transactions that are lost are at most the
\* register_db_commit calls since the last snapshot that landed, and these
\* are fewer than 50.
C28_LostCommitsBelowThreshold ==
    [][(StartRestore /\ last'.result # "same" /\ last.op # "replace")
          => /\ audit.unsaved <= audit.registered
             /\ audit.registered < SNAPSHOT_THRESHOLD]_vars

\* ------------------------------------------------------------ C27, C29, C30
\* C27: every row of guest_limits counts at most 5 operations; and
\* check_guest_limit on a row that counts 5 answers False and writes
\* nothing, so that a submission answered 429 leaves guest_limits as it was.
C27_CountAtMostFive ==
    /\ \A r \in guestLimits : r.operation_count \in 1..GUEST_DAILY_LIMIT
    /\ \A r \in guestLimits :
          (FirstQuotaRow(r.ip_address, r.date) = {r}
             /\ r.operation_count = GUEST_DAILY_LIMIT)
          => LET q == check_guest_limit(r.ip_address, r.date) IN
             ~q.allowed /\ FlushQuota(q.write) = guestLimits

C27_Witness ==
    /\ last.result = "429" /\ last.kind = "guest"
    /\ \E r \in guestLimits : r.operation_count = GUEST_DAILY_LIMIT

\* C29: logout with a token that has no row answers as any logout and
\* leaves user_sessions as it is; after a logout delete_session of the
\* same token changes nothing more; and every other row stays as it was.
C29_DeleteSessionIsIdempotent ==
    [][\A cookie \in Cookies :
          Logout(cookie) =>
            /\ last'.result = "ok"
            /\ cookie \notin DOMAIN sessions => sessions' = sessions
            /\ cookie \notin DOMAIN sessions'
            /\ delete_session(sessions', cookie) = sessions'
            /\ delete_session(delete_session(sessions, cookie), cookie)
                  = delete_session(sessions, cookie)
            /\ \A t \in DOMAIN sessions \ {cookie} :
                  t \in DOMAIN sessions' /\ sessions'[t] = sessions[t]]_vars

C29_Witness ==
    /\ last.op = "logout" /\ last.token = "tU" /\ last.why = "unknown"
    /\ DOMAIN sessions = {"tA", "tB", "tG"}

\* The uploads of one guest, one after the other: images of two pids, with
\* a file type that is accepted or not.
GuestUploads ==
    {[character_ids |-> {1}, group_id |-> 1, pid |-> p, description |-> NoStr,
      filename |-> "f.png", ext_ok |-> e] : p \in {"p2", "p3"}, e \in BOOLEAN}

UploadGuest ==
    \E s \in UploadSlots, a \in GuestUploads : UploadSingleBegin(s, "tG", a)

NextGuestUpload == UploadGuest \/ UploadResume \/ UploadCommit

SpecGuestUpload == InitQuota /\ [][NextGuestUpload]_vars

\* The image-add requests of the guest that were queued.
GuestAdds ==
    Cardinality({n \in DOMAIN requests :
                    /\ requests[n].request_type = "add"
                    /\ requests[n].guest_ip = "ip1"})

\* The submissions came one after the other: none is in flight, and there
\* is no row of guest_limits and none was queued, or the one row counts
\* the queued ones.
OneAfterTheOther ==
    /\ \A t \in UploadSlots : calls[t] = Idle
    /\ \/ GuestAdds = 0 /\ guestLimits = {}
       \/ \E r \in guestLimits :
             guestLimits = {r} /\ r.operation_count = GuestAdds

\* C30, as the specification states it: after four image-add submissions of
\* a guest that were queued, the fifth of the same day is answered 429.
C30_FifthIsDisallowed ==
    [][\A s \in UploadSlots, a \in GuestUploads :
          (UploadSingleBegin(s, "tG", a) /\ a.ext_ok /\ OneAfterTheOther
             /\ GuestAdds = 4)
            => last'.result = "429"]_vars

\* C30, as the code has it: a submission of the guest is answered 429 if
\* and only if five were queued before it on that day; the fifth is taken
\* and it is the sixth that is refused.
C30_SixthIsDisallowed ==
    [][\A s \in UploadSlots, a \in GuestUploads :
          (UploadSingleBegin(s, "tG", a) /\ a.ext_ok /\ OneAfterTheOther)
            => /\ last'.result = "429" <=> GuestAdds >= GUEST_DAILY_LIMIT
               /\ GuestAdds < GUEST_DAILY_LIMIT
                     => /\ calls'[s].op = "upload_single_image"
                        /\ calls'[s].id.quota.allowed]_vars

C30_Witness ==
    /\ last.result = "429" /\ last.kind = "guest"
    /\ GuestAdds = GUEST_DAILY_LIMIT
    /\ \E r \in guestLimits : r.operation_count = GUEST_DAILY_LIMIT
    /\ Cardinality(guestLimits) = 1

\* The row of (ip, today) that .first() finds counts the limit or more.
QuotaExhausted(ip) ==
    \E r \in FirstQuotaRow(ip, Today) : r.operation_count >= GUEST_DAILY_LIMIT

\* C31: an upload of a guest whose quota row counts the limit is answered
\* 429 at once, and it creates no pending request, writes no file to the
\* quarantine and leaves the catalog, the store and guest_limits as they
\* were; and every submission answered 429 has changed none of them.
C31_DisallowedChangesNothing ==
    [][/\ \A s \in UploadSlots, a \in GuestUploads :
            (UploadSingleBegin(s, "tG", a) /\ a.ext_ok /\ QuotaExhausted("ip1"))
              => /\ last'.result = "429" /\ last'.op = "upload_single_image"
                 /\ calls'[s] = Idle
                 /\ UNCHANGED <<requests, created, pendingFiles, tempFiles,
                                groups, characters, images, storeFiles,
                                guestLimits>>
       /\ last'.result = "429"
            => UNCHANGED <<requests, created, pendingFiles, tempFiles,
                           groups, characters, images, storeFiles,
                           guestLimits>>]_vars

C31_Witness ==
    /\ last.result = "429" /\ last.op = "upload_single_image"
    /\ QuotaExhausted("ip1")
    /\ Cardinality(pendingFiles) = GUEST_DAILY_LIMIT
    /\ Cardinality(DOMAIN requests) = GUEST_DAILY_LIMIT

\* C32: guest_limits holds at most one row for an address and a day.
C32_OneRowPerIpAndDate ==
    \A r, q \in guestLimits :
        (r.ip_address = q.ip_address /\ r.date = q.date) => r = q

\* C33: a request that was withdrawn (its row is deleted) has not had its
\* catalog mutation applied, and the withdrawal that deletes the row is
\* answered as cancelled only while no approval of it has applied anything.
C33_WithdrawnIsNeverApplied ==
    \A n \in 1..created :
        /\ Cancelled(n) => applied[n] = 0
        /\ (last.op = "cancel" /\ last.result = "cancelled" /\ last.serial = n)
              => Cancelled(n) /\ applied[n] = 0


C33_Witness ==
    /\ last.op = "cancel" /\ last.result = "400:already_processed"
    /\ last.serial \in 1..created /\ applied[last.serial] = 1
    /\ \E rid \in DOMAIN requests :
          /\ requests[rid].serial = last.serial
          /\ requests[rid].status = APPROVED

\* The names.  An administrator creates a second group and a second
\* character and renames directly; a regular user proposes additions and
\* edits whose names are taken, and an edit that moves a character to the
\* other group without renaming it; an administrator approves or rejects.
NameSubmissions ==
    {<<"create_group", "tA", [name |-> "n2", description |-> NoStr]>>,
     <<"create_group", "tU", [name |-> "n1", description |-> NoStr]>>,
     <<"create_character", "tA",
       [name |-> "n1", group_id |-> 2, description |-> NoStr,
        nicknames |-> NoList]>>,
     <<"create_character", "tA",
       [name |-> "n2", group_id |-> 1, description |-> NoStr,
        nicknames |-> NoList]>>,
     <<"create_character", "tU",
       [name |-> "n1", group_id |-> 1, description |-> NoStr,
        nicknames |-> NoList]>>,
     <<"update_group", "tU", [group_id |-> 2, upd |-> [name |-> "n1"]]>>,
     <<"update_group", "tA", [group_id |-> 2, upd |-> [name |-> "n1"]]>>,
     <<"update_character", "tU", [character_id |-> 2, upd |-> [name |-> "n1"]]>>,
     <<"update_character", "tU", [character_id |-> 2, upd |-> [group_id |-> 1]]>>,
     <<"update_character", "tA", [character_id |-> 2, upd |-> [name |-> "n1"]]>>}

SubmitName ==
    \E s \in ThreadSlots, sub \in NameSubmissions :
        FirstFree(s, ReviewThreads) /\ SubmitBegin(s, sub[1], sub[2], sub[3])

NextNames ==
    \/ SubmitName \/ Queue \/ Direct
    \/ Review \/ ReviewMutate \/ ReviewStamp

SpecNames == Init /\ [][NextNames]_vars

\* C34: no two groups have the same name and no two characters of one group
\* have the same name.
C34_NamesAreUnique ==
    /\ \A g, h \in groups : g.name = h.name => g.id = h.id
    /\ \A c, d \in characters :
          (c.group_id = d.group_id /\ c.name = d.name) => c.id = d.id

\* The name a proposal carries is the name of another entity: of a group for
\* a group, of a character of the same group for a character.
NameDuplicates(kind, a) ==
    CASE kind = "create_group" -> \E g \in groups : g.name = a.name
      [] kind = "update_group" ->
            /\ Has(a.upd, "name") /\ GroupById(a.group_id) # {}
            /\ \E g \in groups : g.name = a.upd.name /\ g.id # a.group_id
      [] kind = "create_character" ->
            \E c \in characters : c.group_id = a.group_id /\ c.name = a.name
      [] kind = "update_character" ->
            /\ Has(a.upd, "name")
            /\ \E old \in CharById(a.character_id), c \in characters :
                  /\ c.id # old.id /\ c.name = a.upd.name
                  /\ c.group_id = IF Has(a.upd, "group_id") THEN a.upd.group_id
                                  ELSE old.group_id
      [] OTHER -> FALSE

\* C35: a regular user's proposal of a group or a character whose name is
\* taken is answered with the duplicate-name error by the handler that
\* receives it, and no pending request is created for it.
C35_DuplicateIsRejectedAtSubmission ==
    [][\A s \in ThreadSlots, sub \in NameSubmissions :
          (SubmitBegin(s, sub[1], sub[2], sub[3]) /\ sub[2] = "tU"
             /\ NameDuplicates(sub[1], sub[3]))
            => /\ last'.result = "400:duplicate"
               /\ calls'[s] = Idle
               /\ requests' = requests /\ created' = created]_vars

\* ------------------------------------------------ remove_admin (admin.py)
\* require_root: "" and the user id for the root user, else the error.
require_root(cookie) ==
    LET s == GetCurrentSession(cookie) IN
    IF ~s.found \/ s.is_guest THEN [err |-> "401", user_id |-> NoId]
    ELSE IF s.user_id \notin DOMAIN users THEN [err |-> "401", user_id |-> NoId]
    ELSE IF users[s.user_id] # ROOT THEN [err |-> "403", user_id |-> NoId]
    ELSE [err |-> "", user_id |-> s.user_id]

\* remove_admin: the root user turns an administrator into a regular user.
\* The sessions of that user are left as they are.
RemoveAdmin(cookie, uid) ==
    LET auth == require_root(cookie)
        kind == Identify(cookie).kind
    IN
    /\ calls[LoopSlot] = Idle /\ ~loopOwner
    /\ sessions' = SessionsAfterCurrent(cookie)
    /\ IF auth.err # ""
       THEN Return(LoopSlot, "remove_admin", kind, auth.err, 0) /\ UNCHANGED users
       ELSE IF uid \notin DOMAIN users
       THEN Return(LoopSlot, "remove_admin", kind, "404", 0) /\ UNCHANGED users
       ELSE IF users[uid] = ROOT
       THEN Return(LoopSlot, "remove_admin", kind, "400:root", 0) /\ UNCHANGED users
       ELSE IF users[uid] # ADMIN
       THEN Return(LoopSlot, "remove_admin", kind, "400:not_admin", 0)
            /\ UNCHANGED users
       ELSE /\ users' = [users EXCEPT ![uid] = USER]
            /\ Return(LoopSlot, "remove_admin", kind, "ok", 0)
    /\ UNCHANGED <<guestLimits, requests, groups, characters, images,
                   pendingFiles, tempFiles, storeFiles, now, budget, created,
                   applied, approvals, withdrawn, restartVars, durableVars>>

\* The decisions.  A regular user and the second administrator submit and
\* upload; the two administrators review, with a reason or without.
Reasons == {NoStr, "why"}

UploadDecide ==
    \E s \in UploadSlots, u \in ReviewUploads, cookie \in {"tU", "tB"} :
        UploadSingleBegin(s, cookie, u[2])
ReviewReason ==
    \E cookie \in Admins, rid \in RequestIdRange,
       action \in ReviewActions, reason \in Reasons :
        handle_pending_request(cookie, rid, action, reason)

NextDecide ==
    \/ Submit \/ Queue \/ Direct
    \/ UploadDecide \/ UploadResume \/ UploadCommit \/ UploadLedger
    \/ ReviewReason \/ ReviewMutate \/ ReviewNick \/ ReviewUnlink \/ ReviewStamp

SpecDecide == Init /\ [][NextDecide]_vars

\* The callers of the review.  A regular user asks for a change of the
\* group; the second administrator, the regular user, the guest and a caller
\* without a cookie review; the root user removes the second administrator;
\* the day passes and the guest's session expires.
ReviewCallers == {"tB", "tU", "tG", NoCookie}

SubmitGuard ==
    \E s \in ThreadSlots :
        /\ FirstFree(s, ReviewThreads)
        /\ SubmitBegin(s, "update_group", "tU",
                       [group_id |-> 1, upd |-> [name |-> "n2"]])
ReviewAny ==
    \E cookie \in ReviewCallers, rid \in RequestIdRange,
       action \in ReviewActions : ReviewBegin(cookie, rid, action)
Demote == RemoveAdmin("tA", 2)

NextGuard ==
    \/ SubmitGuard \/ Queue
    \/ ReviewAny \/ ReviewMutate \/ ReviewStamp
    \/ Demote \/ Tick

SpecGuard == Init /\ [][NextGuard]_vars

\* C36: a request row has its reviewer and its review time set if and only
\* if its status is approved or rejected; and the commit that decides a
\* request through the review writes, as the reviewer, the user of the
\* session the review was called with, an administrator.
C36_ReviewerSetIffDecided ==
    /\ [](\A rid \in DOMAIN requests :
            LET r == requests[rid] IN
            /\ r.status \in Decided <=> r.reviewed_by # NoId
            /\ r.status \in Decided <=> r.reviewed_at # NoTime
            /\ r.status \in {PENDING} \cup Decided)
    /\ [][\A cookie \in Admins, rid \in RequestIdRange,
             action \in ReviewActions, reason \in Reasons :
             (handle_pending_request(cookie, rid, action, reason)
                /\ calls'[LoopSlot] # Idle)
               => /\ calls'[LoopSlot].id.user_id = sessions[cookie].user_id
                  /\ IsAdminRole(users[sessions[cookie].user_id])]_vars
    /\ [][(ReviewStamp /\ last'.result = "ok")
            => LET f == calls[LoopSlot] IN
               /\ requests[f.rid].status = PENDING
               /\ requests'[f.rid].status \in Decided
               /\ requests'[f.rid].reviewed_by = f.id.user_id
               /\ requests'[f.rid].reviewed_at = now]_vars

C36_Witness ==
    \E a, b \in DOMAIN requests :
        /\ requests[a].status = REJECTED /\ requests[a].reviewed_by = 2
        /\ requests[a].user_id = 3
        /\ requests[b].status = APPROVED /\ requests[b].reviewed_by = 2
        /\ requests[b].user_id = 2 /\ requests[b].request_type = "add"
        /\ last.op = "reject" /\ last.result = "ok"

\* The cookie names a session that has not expired, of a user.
LoggedIn(cookie) ==
    /\ cookie \in DOMAIN sessions
    /\ sessions[cookie].expires_at > now
    /\ ~sessions[cookie].is_guest

\* C37: a review by a caller who is not an administrator now, whatever the
\* role was when the session was created, is answered 401 (no session, an
\* expired one, a guest's) or 403 (a regular user's) and leaves the
\* requests, the catalog and the files as they were.
C37_OnlyAdministratorsReview ==
    [][\A cookie \in ReviewCallers, rid \in RequestIdRange,
          action \in ReviewActions :
          (ReviewBegin(cookie, rid, action)
             /\ ~(LoggedIn(cookie)
                    /\ users[sessions[cookie].user_id] \in {ROOT, ADMIN}))
            => /\ last'.result = IF LoggedIn(cookie) THEN "403" ELSE "401"
               /\ calls'[LoopSlot] = Idle
               /\ UNCHANGED <<requests, groups, characters, images,
                              storeFiles, pendingFiles, applied, approvals>>]_vars

\* The second administrator was removed and then called the review, on the
\* next day, with the session of before.
C37_Witness ==
    /\ last.op \in ReviewActions /\ last.result = "403" /\ last.kind = "user"
    /\ users[2] = USER
    /\ now = 1
    /\ sessions["tB"].created_at = 0 /\ sessions["tB"].last_activity = 1
    /\ sessions["tU"].last_activity = 0
    /\ \E rid \in DOMAIN requests : requests[rid].status = PENDING

\* The characters an image-add request was submitted with.
SubmittedCharacters(row) ==
    LET d == LoadData(row.image_data) IN
    IF Has(d, "character_ids") THEN d.character_ids ELSE {}

\* C38: the steps of an approval of an image-add whose quarantined file is
\* there.  create_image adds exactly one Image, under an id of ten
\* characters that no Image had, linked to the characters the request was
\* submitted with, and puts its file into the store; the quarantined file
\* is then removed; the last commit marks the request approved, and the
\* call that answers ok has applied the request once.
C38_ApprovedAddCreatesOneImage ==
    [][/\ (ReviewMutate /\ calls[LoopSlot].type = "add"
             /\ calls[LoopSlot].row.temp_file_path \in pendingFiles)
            => LET f == calls[LoopSlot] IN
               \E i \in images' :
                  /\ images' = images \cup {i} /\ i \notin images
                  /\ \A o \in images : o.image_id # i.image_id
                  /\ Len(generate_image_id(i.image_id)) = 10
                  /\ i.characters = SubmittedCharacters(f.row)
                  /\ storeFiles' = storeFiles \cup {i.image_id}
                  /\ calls'[LoopSlot].pc = "unlink"
       /\ ReviewUnlink
            => /\ pendingFiles' =
                    pendingFiles \ {calls[LoopSlot].row.temp_file_path}
               /\ images' = images /\ storeFiles' = storeFiles
               /\ calls'[LoopSlot].pc = "stamp"
       /\ (ReviewStamp /\ calls[LoopSlot].type = "add"
             /\ calls[LoopSlot].op = "approve")
            => LET f == calls[LoopSlot] IN
               /\ last'.result = "ok"
               /\ requests'[f.rid].status = APPROVED
               /\ f.row.temp_file_path \notin pendingFiles
               /\ applied[f.serial] = 1
               /\ images' = images /\ storeFiles' = storeFiles]_vars

\* The deletions.  A regular user proposes a character for the group, the
\* deletion of the group and the deletion of the character; an
\* administrator deletes the group directly; an administrator approves.
CascadeSubmissions ==
    {<<"create_character", "tU",
       [name |-> "n2", group_id |-> 1, description |-> NoStr,
        nicknames |-> <<"a">>]>>,
     <<"delete_group", "tU", [group_id |-> 1]>>,
     <<"delete_character", "tU", [character_id |-> 1]>>,
     <<"delete_group", "tA", [group_id |-> 1]>>}

SubmitCascade ==
    \E s \in ThreadSlots, sub \in CascadeSubmissions :
        FirstFree(s, ReviewThreads) /\ SubmitBegin(s, sub[1], sub[2], sub[3])

NextCascade ==
    \/ SubmitCascade \/ Queue \/ Direct
    \/ Approve \/ ReviewMutate \/ ReviewNick \/ ReviewStamp

SpecCascade == Init /\ [][NextCascade]_vars

\* C39: every character belongs to a group that exists, and every link of
\* an image names a character that exists.  (The nicknames of a character
\* are held in its row.)
C39_ReferencesExist ==
    /\ \A c \in characters : GroupById(c.group_id) # {}
    /\ \A i \in images : i.characters \subseteq CharIds


\* C40: when an administrator rejects a pending request and gives a
\* reason, the row carries that reason once the rejection is committed;
\* a pending or approved row carries no rejection reason.
C40_RejectionKeepsReason ==
    /\ [](\A rid \in DOMAIN requests :
             requests[rid].status \in {PENDING, APPROVED}
                => requests[rid].rejection_reason = NoStr)
    /\ [][LET f == calls[LoopSlot] IN
          (/\ ReviewStamp
           /\ f.op = "reject" /\ f.reason # NoStr
           /\ f.rid \in DOMAIN requests)
             => requests'[f.rid].rejection_reason = f.reason]_vars
====
